---------------------------- MODULE Spec2Model ----------------------------
(***************************************************************************)
(* A model of the BGP anomaly-detection pipeline of                        *)
(* bhupeshkurra/bgp-monitoring-system: the feature aggregator, the         *)
(* heuristic, ML and RPKI detectors and the correlation engine, all        *)
(* coordinating through one PostgreSQL database.                           *)
(*                                                                         *)
(* Tables are sequences of rows; a bigserial id is the row's index.        *)
(* Time is in seconds.  Text is a sequence of words, so that lower() and   *)
(* the substring tests of the correlator are computed, not assumed.        *)
(***************************************************************************)
EXTENDS Integers, Sequences, FiniteSets, TLC

VARIABLES
    now,                        \* wall clock, seconds
    ip_rib,                     \* table ip_rib (raw updates)
    featUnique,                 \* does bgp_features_1min carry UNIQUE(window_start, prefix, origin_as)?
    bgp_features_1min,          \* table bgp_features_1min
    aggCkpt,                    \* feature_aggregator_state.last_processed_timestamp
    aggLast,                    \* outcome of the aggregator's last loop iteration
    heurCkpt,                   \* heuristic_inference_state.last_processed_timestamp
    heurSeen,                   \* FeatureRows the heuristic rules were applied to since the detector started
    mlCkpt,                     \* ml_inference_state.last_processed_timestamp
    rpkiCkpt,                   \* rpki_inference_state.last_processed_timestamp
    rpkiPc,                     \* RPKI detector: position in its loop
    rpki_df,                    \* RPKI detector: the batch fetched by the current poll
    rpkiIdx,                    \* RPKI detector: next row of rpki_df to validate
    rpkiWaited,                 \* RPKI detector: seconds spent so far in wait_for_routinator (0 outside it)
    rpkiProbe,                  \* RPKI detector: answer to its last startup probe (NULL: none sent)
    rpkiHttp,                   \* RPKI detector: answers to the requests of its last query_routinator_api call
    rpkiExit,                   \* RPKI detector: exit code of the process, once it has ended
    hybrid_anomaly_detections,  \* table hybrid_anomaly_detections
    corrCkpt,                   \* correlation_engine_state.last_processed_id
    corrSeen,                   \* ids of the detections some correlator poll fetched
    corrPc,                     \* correlator process: "running" or "exited"
    faults,                     \* failed database writes so far
    bgp_peers,                  \* table bgp_peers
    base_attrs,                 \* table base_attrs
    colPc,                      \* collector: position in main
    ws,                         \* collector: the socket of the current loop iteration
    wsSent,                     \* ris_subscribe frames sent on that socket
    frames,                     \* frames the collector has received so far
    waited,                     \* seconds slept since a socket was given up (NULL: none was)
    dbOpen,                     \* collector: is its database connection open
    exitCode,                   \* collector: exit code of the process, once it has ended
    workers,                    \* heuristic and ML detector processes: position, connection, exit code
    resolver,                   \* collector instances resolving a Peer or BaseAttrs row
    grp,                        \* the input of the function under check: a detection group, or a FeatureRow and a validator response
    res                         \* what the function returned for grp

vars == <<now, ip_rib, featUnique, bgp_features_1min, aggCkpt, aggLast,
          heurCkpt, heurSeen, mlCkpt, rpkiCkpt, rpkiPc, rpki_df, rpkiIdx,
          hybrid_anomaly_detections, corrCkpt, corrSeen, corrPc, faults,
          bgp_peers, base_attrs, colPc, ws, wsSent, frames, waited, dbOpen, exitCode,
          workers, resolver, rpkiWaited, rpkiProbe, rpkiHttp, rpkiExit, grp, res>>

\* the collector's and the aggregator's part of the state, and the part of
\* the classification function
aggVars == <<now, ip_rib, featUnique, bgp_features_1min, aggCkpt, aggLast>>
classifyVars == <<grp, res>>
collectorVars == <<bgp_peers, base_attrs, colPc, ws, wsSent, frames, waited, dbOpen,
                   exitCode, workers, resolver>>
validatorVars == <<rpkiWaited, rpkiProbe, rpkiHttp, rpkiExit>>
detectVars == <<heurCkpt, heurSeen, mlCkpt, rpkiCkpt, rpkiPc, rpki_df, rpkiIdx,
                hybrid_anomaly_detections, corrCkpt, corrSeen, corrPc>>
\* SQL NULL, for a column whose value v is held as <<v>> or as a fraction <<n, d>>
NULL == <<>>
\* Python's None / an absent key, where a record is expected
Nothing == [nothing |-> TRUE]

(***************************************************************************)
(* Small helpers                                                           *)
(***************************************************************************)
Range(s) == {s[i] : i \in DOMAIN s}

Max(S) == CHOOSE x \in S : \A y \in S : y <= x

RECURSIVE SetToSeq(_)
SetToSeq(S) ==
    IF S = {} THEN <<>>
    ELSE LET x == CHOOSE y \in S : TRUE IN <<x>> \o SetToSeq(S \ {x})

(***************************************************************************)
(* Text.  A text is a sequence of words as written (with their case).      *)
(* Lower is str.lower() word by word; InText(n, h) is Python's "n in h"    *)
(* for a needle n that is itself made of whole words.                      *)
(***************************************************************************)
Lower(w) ==
    CASE w = "Origin"    -> "origin"
      [] w = "AS"        -> "as"
      [] w = "HIJACK"    -> "hijack"
      [] w = "SIGNAL"    -> "signal"
      [] w = "MaxLength" -> "maxlength"
      [] w = "LEAK"      -> "leak"
      [] w = "CONFIG"    -> "config"
      [] w = "ERROR"     -> "error"
      [] w = "RPKI"      -> "rpki"
      [] w = "No"        -> "no"
      [] w = "ROA"       -> "roa"
      [] w = "INFORMATIONAL" -> "informational"
      [] OTHER           -> w

LowerText(t) == [i \in DOMAIN t |-> Lower(t[i])]

InText(needle, hay) ==
    \E i \in 0..(Len(hay) - Len(needle)) :
        \A j \in 1..Len(needle) : hay[i + j] = needle[j]

(***************************************************************************)
(* Severities                                                              *)
(***************************************************************************)
Severities == {"low", "medium", "high", "critical"}

\* severity_order of correlation_engine.classify_detection_group and of
\* heuristic_detector.get_max_severity; .get(x, 0) for anything else
severity_order(s) ==
    CASE s = "low"      -> 1
      [] s = "medium"   -> 2
      [] s = "high"     -> 3
      [] s = "critical" -> 4
      [] OTHER          -> 0

(***************************************************************************)
(* The rpki_description texts validate_rpki builds                         *)
(***************************************************************************)
\* f"Origin AS mismatch: announced AS{..}, ROA expects AS{..} - HIJACK SIGNAL"
DescOriginMismatch ==
    <<"Origin", "AS", "mismatch", "announced", "AS", "ROA", "expects", "AS", "HIJACK", "SIGNAL">>
\* f"MaxLength violation: prefix /{..} exceeds max_length /{..} - LEAK/CONFIG ERROR"
DescMaxLength ==
    <<"MaxLength", "violation", "prefix", "exceeds", "max_length", "LEAK", "CONFIG", "ERROR">>
\* f"RPKI invalid: {reason}"
DescGenericInvalid(reason) == <<"RPKI", "invalid">> \o reason
\* f"No ROA found for prefix {..} origin AS{..} - INFORMATIONAL"
DescNoRoa == <<"No", "ROA", "found", "for", "prefix", "origin", "AS", "INFORMATIONAL">>

(***************************************************************************)
(* Python values inside the JSON metadata: a list element is either a      *)
(* dict or a string; x == y between a string and a dict is False.          *)
(***************************************************************************)
PyStr(s)  == [py |-> "str", val |-> s]
PyHit(h)  == [py |-> "dict", rule_name |-> h.rule_name, severity |-> h.severity]

\* Python's  x in list  for a string x
PyStrInList(s, list) ==
    \E i \in DOMAIN list : list[i].py = "str" /\ list[i].val = s


(***************************************************************************)
(* Correlation engine: classification                                      *)
(* (services/correlation_engine.py)                                        *)
(***************************************************************************)
\* The flags classify_detection_group derives from a group of detection rows
\* a plausible slip: the descriptions of all rpki rows are inspected, not only
\* those of the rows with rpki_status 'invalid'
GroupFlags_any_status(df) ==
    LET event_types == {d.event_type : d \in df}
        rpki_detections == {d \in df : d.event_type = "rpki"}
        rpki_invalid == {d \in rpki_detections : d.rpki_status = "invalid"}
        desc(d) == LowerText(d.metadata.rpki_description)
        heuristic_detections == {d \in df : d.event_type = "heuristic"}
        max_severity == Max({severity_order(d.combined_severity) : d \in df})
    IN  [ source_count |-> Cardinality(event_types),
          has_rpki_invalid |-> rpki_invalid # {},
          has_rpki_origin_mismatch |->
              \E d \in rpki_detections :
                  \/ InText(<<"origin", "as", "mismatch">>, desc(d))
                  \/ InText(<<"hijack">>, desc(d)),
          has_rpki_maxlength |->
              \E d \in rpki_detections :
                  \/ InText(<<"maxlength">>, desc(d))
                  \/ InText(<<"leak">>, desc(d)),
          has_heuristic |-> heuristic_detections # {},
          has_path_inflation |->
              \E d \in heuristic_detections :
                  PyStrInList("path_inflation", d.metadata.triggered_rules),
          max_severity_label |->
              CHOOSE k \in Severities : severity_order(k) = max_severity ]

GroupFlags(df) ==
    LET event_types == {d.event_type : d \in df}
        rpki_detections == {d \in df : d.event_type = "rpki"}
        rpki_invalid == {d \in rpki_detections : d.rpki_status = "invalid"}
        desc(d) == LowerText(d.metadata.rpki_description)
        heuristic_detections == {d \in df : d.event_type = "heuristic"}
        max_severity == Max({severity_order(d.combined_severity) : d \in df})
    IN  [ source_count |-> Cardinality(event_types),
          has_rpki_invalid |-> rpki_invalid # {},
          has_rpki_origin_mismatch |->
              \E d \in rpki_invalid :
                  \/ InText(<<"origin", "as", "mismatch">>, desc(d))
                  \/ InText(<<"hijack">>, desc(d)),
          has_rpki_maxlength |->
              \E d \in rpki_invalid :
                  \/ InText(<<"maxlength">>, desc(d))
                  \/ InText(<<"leak">>, desc(d)),
          has_heuristic |-> heuristic_detections # {},
          has_path_inflation |->
              \E d \in heuristic_detections :
                  PyStrInList("path_inflation", d.metadata.triggered_rules),
          max_severity_label |->
              CHOOSE k \in Severities : severity_order(k) = max_severity ]

Verdict(c, s, n, why) ==
    [classification |-> c, final_severity |-> s, source_count |-> n, reasoning |-> why]

\* a plausible slip: the two LEAK rules tested in the wrong order
classify_detection_group_swapped(df) ==
    LET f == GroupFlags(df)
        n == f.source_count
    IN  IF f.has_rpki_origin_mismatch THEN Verdict("HIJACK", "critical", n, "rpki origin mismatch")
        ELSE IF f.has_rpki_maxlength THEN Verdict("LEAK", "high", n, "rpki maxlength")
        ELSE IF f.has_rpki_maxlength /\ f.has_path_inflation
            THEN Verdict("LEAK", "critical", n, "rpki maxlength + path inflation")
        ELSE IF f.has_rpki_invalid THEN Verdict("INVALID", "high", n, "rpki invalid")
        ELSE IF n >= 4 THEN Verdict("SUSPICIOUS", "critical", n, "4+ sources")
        ELSE IF n = 3 THEN Verdict("SUSPICIOUS", "high", n, "3 sources")
        ELSE IF n = 2 THEN Verdict("SUSPICIOUS", "medium", n, "2 sources")
        ELSE IF f.max_severity_label \in {"high", "critical"}
            THEN Verdict("SUSPICIOUS", f.max_severity_label, n, "single strong")
        ELSE Verdict("NORMAL", f.max_severity_label, n, "single weak")

\* a plausible slip: two sources raise the highest individual severity by one
\* step instead of giving medium
classify_detection_group_escalating(df) ==
    LET f == GroupFlags(df)
        n == f.source_count
        raised == CHOOSE k \in Severities :
                      severity_order(k) = Max({severity_order(f.max_severity_label) + 1, 2})
    IN  IF f.has_rpki_origin_mismatch THEN Verdict("HIJACK", "critical", n, "rpki origin mismatch")
        ELSE IF f.has_rpki_maxlength /\ f.has_path_inflation
            THEN Verdict("LEAK", "critical", n, "rpki maxlength + path inflation")
        ELSE IF f.has_rpki_maxlength THEN Verdict("LEAK", "high", n, "rpki maxlength")
        ELSE IF f.has_rpki_invalid THEN Verdict("INVALID", "high", n, "rpki invalid")
        ELSE IF n >= 4 THEN Verdict("SUSPICIOUS", "critical", n, "4+ sources")
        ELSE IF n = 3 THEN Verdict("SUSPICIOUS", "high", n, "3 sources")
        ELSE IF n = 2 /\ f.max_severity_label # "critical"
            THEN Verdict("SUSPICIOUS", raised, n, "2 sources")
        ELSE IF n = 2 THEN Verdict("SUSPICIOUS", "critical", n, "2 sources")
        ELSE IF f.max_severity_label \in {"high", "critical"}
            THEN Verdict("SUSPICIOUS", f.max_severity_label, n, "single strong")
        ELSE Verdict("NORMAL", f.max_severity_label, n, "single weak")

classify_detection_group(df) ==
    LET f == GroupFlags(df)
        n == f.source_count
    IN  IF f.has_rpki_origin_mismatch
            THEN Verdict("HIJACK", "critical", n, "rpki origin mismatch")
        ELSE IF f.has_rpki_maxlength /\ f.has_path_inflation
            THEN Verdict("LEAK", "critical", n, "rpki maxlength + path inflation")
        ELSE IF f.has_rpki_maxlength
            THEN Verdict("LEAK", "high", n, "rpki maxlength")
        ELSE IF f.has_rpki_invalid /\ f.has_heuristic
            THEN Verdict("INVALID", "high", n, "rpki invalid + heuristic")
        ELSE IF f.has_rpki_invalid
            THEN Verdict("INVALID", "high", n, "rpki invalid")
        ELSE IF n >= 4
            THEN Verdict("SUSPICIOUS", "critical", n, "4+ sources")
        ELSE IF n = 3
            THEN Verdict("SUSPICIOUS", "high", n, "3 sources")
        ELSE IF n = 2
            THEN Verdict("SUSPICIOUS", "medium", n, "2 sources")
        ELSE IF n = 1
            THEN IF f.max_severity_label \in {"high", "critical"}
                    THEN Verdict("SUSPICIOUS", f.max_severity_label, n, "single strong")
                    ELSE Verdict("NORMAL", f.max_severity_label, n, "single weak")
        ELSE Verdict("NORMAL", "low", n, "no significant anomaly")


(***************************************************************************)
(* Numbers.  A double-precision column that is a quotient of counts is     *)
(* kept as the exact fraction <<numerator, denominator>>.                  *)
(***************************************************************************)
RECURSIVE Gcd(_, _)
Gcd(a, b) == IF b = 0 THEN a ELSE Gcd(b, a % b)

Frac(n, d) == LET g == Gcd(n, d) IN IF g = 0 THEN <<0, 1>> ELSE <<n \div g, d \div g>>
FracAdd(a, b) == Frac(a[1] * b[2] + b[1] * a[2], a[2] * b[2])
FracSub(a, b) == <<a[1] * b[2] - b[1] * a[2], a[2] * b[2]>>
FracDivInt(a, k) == Frac(a[1], a[2] * k)
FracGtInt(a, k) == a[1] > k * a[2]
\* a >= p/q
FracGe(a, p, q) == a[1] * q >= p * a[2]

HOUR == 60 * 60
DAY == 24 * HOUR

(***************************************************************************)
(* Prefixes.  text is the CIDR string; blk is the number of the first /24  *)
(* block of the network (address \div 256), enough to decide overlap with  *)
(* the reserved ranges, none of which is longer than /24 except the        *)
(* broadcast address, which lies inside 240.0.0.0/4.                       *)
(***************************************************************************)
Blk(a, b, c) == (a * 256 + b) * 256 + c
Pow2(n) == IF n <= 0 THEN 1 ELSE 2 ^ n
Prefix(text, a, b, c, len) == [text |-> text, blk |-> Blk(a, b, c), len |-> len]
\* the /24 blocks a network covers
FirstBlk(p) == p.blk
LastBlk(p) == p.blk + Pow2(24 - p.len) - 1

PfxGoogle == Prefix("8.8.8.0/24", 8, 8, 8, 24)
PfxCloudflare == Prefix("1.1.1.0/24", 1, 1, 1, 24)
PfxPrivate == Prefix("10.0.0.0/8", 10, 0, 0, 8)

\* str(prefix).split('/')[1] as an integer
get_prefix_length(p) == p.len

(***************************************************************************)
(* Feature aggregator (services/feature_aggregator.py)                     *)
(***************************************************************************)
SLEEP_INTERVAL == 20
INITIAL_LOOKBACK == 10

\* public.floor_to_1min: truncate a timestamp to its minute
floor_to_1min(t) == t - (t % 60)

\* one ip_rib row, with base_attrs.as_path_count as the LEFT JOIN finds it
\* (NULL when no base_attrs row matches, else <<count>>)
RibRow(ts, prefix, origin_as, iswithdrawn, peer, as_path_count) ==
    [timestamp |-> ts, prefix |-> prefix, origin_as |-> origin_as,
     iswithdrawn |-> iswithdrawn, peer_hash_id |-> peer,
     as_path_count |-> as_path_count]

RECURSIVE SumOver(_, _)
SumOver(S, f) ==
    IF S = {} THEN 0
    ELSE LET i == CHOOSE j \in S : TRUE IN f[i] + SumOver(S \ {i}, f)

\* The SELECT ... GROUP BY of aggregate_once for one group: rib is the table,
\* idx the indices of the group's rows
\* a variant whose withdrawal_ratio is the share of withdrawals in all updates
FeatureOf_ratio_of_total(rib, idx, window_start, prefix, origin_as) ==
    LET ann == Cardinality({i \in idx : ~rib[i].iswithdrawn})
        wd == Cardinality({i \in idx : rib[i].iswithdrawn})
        total == Cardinality(idx)
    IN  [ window_start |-> window_start,
          prefix |-> prefix,
          origin_as |-> origin_as,
          announcements |-> ann,
          withdrawals |-> wd,
          total_updates |-> total,
          withdrawal_ratio |-> Frac(wd, total),
          flap_count |-> (wd + ann) \div 2,
          path_length |-> <<2 + (origin_as % 3), 1>>,
          unique_peers |-> Cardinality({rib[i].peer_hash_id : i \in idx}),
          message_rate |-> Frac(total, 60),
          session_resets |-> 0 ]

\* a variant that counts six session resets per update
FeatureOf_resets_counted(rib, idx, window_start, prefix, origin_as) ==
    LET ann == Cardinality({i \in idx : ~rib[i].iswithdrawn})
        wd == Cardinality({i \in idx : rib[i].iswithdrawn})
        total == Cardinality(idx)
        withPath == {i \in idx : rib[i].as_path_count # NULL}
        pathSum == SumOver(withPath, [i \in withPath |-> rib[i].as_path_count[1]])
    IN  [ window_start |-> window_start,
          prefix |-> prefix,
          origin_as |-> origin_as,
          announcements |-> ann,
          withdrawals |-> wd,
          total_updates |-> total,
          withdrawal_ratio |-> Frac(wd, IF ann > 1 THEN ann ELSE 1),
          flap_count |-> (wd + ann) \div 2,
          path_length |-> IF withPath # {}
                            THEN Frac(pathSum, Cardinality(withPath))
                            ELSE <<2 + (origin_as % 3), 1>>,
          unique_peers |-> Cardinality({rib[i].peer_hash_id : i \in idx}),
          message_rate |-> Frac(total, 60),
          session_resets |-> 6 * total ]

FeatureOf(rib, idx, window_start, prefix, origin_as) ==
    LET ann == Cardinality({i \in idx : ~rib[i].iswithdrawn})
        wd == Cardinality({i \in idx : rib[i].iswithdrawn})
        total == Cardinality(idx)
        withPath == {i \in idx : rib[i].as_path_count # NULL}
        pathSum == SumOver(withPath, [i \in withPath |-> rib[i].as_path_count[1]])
    IN  [ window_start |-> window_start,
          prefix |-> prefix,
          origin_as |-> origin_as,
          announcements |-> ann,
          withdrawals |-> wd,
          total_updates |-> total,
          withdrawal_ratio |-> Frac(wd, IF ann > 1 THEN ann ELSE 1),
          flap_count |-> (wd + ann) \div 2,
          path_length |-> IF withPath # {}
                            THEN Frac(pathSum, Cardinality(withPath))
                            ELSE <<2 + (origin_as % 3), 1>>,
          unique_peers |-> Cardinality({rib[i].peer_hash_id : i \in idx}),
          message_rate |-> Frac(total, 60),
          session_resets |-> 0 ]

FeatureKey(f) == <<f.window_start, f.prefix, f.origin_as>>

\* a variant that dates every row of a scan to the minute the scan ends in
AggregatedRows_window_of_scan(rib, from_ts, to_ts) ==
    LET sel == {i \in DOMAIN rib : rib[i].timestamp > from_ts /\ rib[i].timestamp <= to_ts}
        keys == {<<rib[i].prefix, rib[i].origin_as>> : i \in sel}
        group(k) == {i \in sel : rib[i].prefix = k[1] /\ rib[i].origin_as = k[2]}
    IN  {FeatureOf(rib, group(k), floor_to_1min(to_ts), k[1], k[2]) : k \in keys}

\* a variant that scans the closed interval [from_ts, to_ts]
AggregatedRows_closed_interval(rib, from_ts, to_ts) ==
    LET sel == {i \in DOMAIN rib : rib[i].timestamp >= from_ts /\ rib[i].timestamp <= to_ts}
        keys == {<<floor_to_1min(rib[i].timestamp), rib[i].prefix, rib[i].origin_as>> : i \in sel}
        group(k) == {i \in sel : /\ floor_to_1min(rib[i].timestamp) = k[1]
                                 /\ rib[i].prefix = k[2]
                                 /\ rib[i].origin_as = k[3]}
    IN  {FeatureOf(rib, group(k), k[1], k[2], k[3]) : k \in keys}

\* the rows the INSERT ... SELECT of aggregate_once produces for (from_ts, to_ts]
AggregatedRows(rib, from_ts, to_ts) ==
    LET sel == {i \in DOMAIN rib : rib[i].timestamp > from_ts /\ rib[i].timestamp <= to_ts}
        keys == {<<floor_to_1min(rib[i].timestamp), rib[i].prefix, rib[i].origin_as>> : i \in sel}
        group(k) == {i \in sel : /\ floor_to_1min(rib[i].timestamp) = k[1]
                                 /\ rib[i].prefix = k[2]
                                 /\ rib[i].origin_as = k[3]}
    IN  {FeatureOf(rib, group(k), k[1], k[2], k[3]) : k \in keys}


(***************************************************************************)
(* Heuristic detector: the rule set (services/heuristic_detector.py)       *)
(***************************************************************************)
THRESHOLDS ==
    [ churn            |-> [moderate |-> 1212, severe |-> 6012, critical |-> 24000],
      flapping         |-> [medium |-> 132, high |-> 372, critical |-> 1200],
      path_length      |-> [mild |-> 16, severe |-> 25],
      withdrawal_ratio |-> [high |-> <<70, 100>>, critical |-> <<90, 100>>],
      path_inflation   |-> [high |-> 5, critical |-> 10],
      volume_spike     |-> [high |-> 100000, critical |-> 500000],
      session_resets   |-> [medium |-> 6, high |-> 11, critical |-> 50] ]

\* (64512, 65534); the 32-bit private range (4200000000, 4294967294) lies
\* above every ASN of this model
BOGON_ASN_RANGES == {<<64512, 65534>>}

BOGON_PREFIXES ==
    { Prefix("0.0.0.0/8", 0, 0, 0, 8),          Prefix("10.0.0.0/8", 10, 0, 0, 8),
      Prefix("100.64.0.0/10", 100, 64, 0, 10),  Prefix("127.0.0.0/8", 127, 0, 0, 8),
      Prefix("169.254.0.0/16", 169, 254, 0, 16), Prefix("172.16.0.0/12", 172, 16, 0, 12),
      Prefix("192.0.0.0/24", 192, 0, 0, 24),    Prefix("192.0.2.0/24", 192, 0, 2, 24),
      Prefix("192.168.0.0/16", 192, 168, 0, 16), Prefix("198.18.0.0/15", 198, 18, 0, 15),
      Prefix("198.51.100.0/24", 198, 51, 100, 24), Prefix("203.0.113.0/24", 203, 0, 113, 24),
      Prefix("224.0.0.0/4", 224, 0, 0, 4),      Prefix("240.0.0.0/4", 240, 0, 0, 4),
      Prefix("255.255.255.255/32", 255, 255, 255, 32) }

\* HeuristicHit; score in hundredths
HeuristicHit(rule_name, severity, score) ==
    [rule_name |-> rule_name, severity |-> severity, score |-> score]

\* a variant with inclusive comparisons and the moderate threshold at 1200
check_churn_inclusive(row) ==
    LET churn_per_hour == row.total_updates * 60
    IN  IF churn_per_hour >= 24000 THEN HeuristicHit("churn_critical", "critical", 95)
        ELSE IF churn_per_hour >= 6012 THEN HeuristicHit("churn_severe", "high", 80)
        ELSE IF churn_per_hour >= 1200 THEN HeuristicHit("churn_moderate", "medium", 60)
        ELSE Nothing

check_churn(row) ==
    LET churn_per_hour == row.total_updates * 60
    IN  IF churn_per_hour > THRESHOLDS.churn.critical
            THEN HeuristicHit("churn_critical", "critical", 95)
        ELSE IF churn_per_hour > THRESHOLDS.churn.severe
            THEN HeuristicHit("churn_severe", "high", 80)
        ELSE IF churn_per_hour > THRESHOLDS.churn.moderate
            THEN HeuristicHit("churn_moderate", "medium", 60)
        ELSE Nothing

\* a variant that looks at the ratio only
check_withdrawal_ratio_any_volume(row) ==
    IF FracGe(row.withdrawal_ratio, 90, 100)
        THEN HeuristicHit("withdrawal_storm_critical", "critical", 95)
    ELSE IF FracGe(row.withdrawal_ratio, 70, 100)
        THEN HeuristicHit("withdrawal_storm_high", "high", 80)
    ELSE Nothing

check_withdrawal_ratio(row) ==
    LET ratio == row.withdrawal_ratio
        withdrawals_per_hour == row.withdrawals * 60
        crit == THRESHOLDS.withdrawal_ratio.critical
        high == THRESHOLDS.withdrawal_ratio.high
    IN  IF FracGe(ratio, crit[1], crit[2]) /\ withdrawals_per_hour > 300
            THEN HeuristicHit("withdrawal_storm_critical", "critical", 95)
        ELSE IF FracGe(ratio, high[1], high[2]) /\ withdrawals_per_hour > 600
            THEN HeuristicHit("withdrawal_storm_high", "high", 80)
        ELSE Nothing

check_flapping(row) ==
    LET flap_per_hour == row.flap_count * 60
    IN  IF flap_per_hour > THRESHOLDS.flapping.critical
            THEN HeuristicHit("flap_critical", "critical", 95)
        ELSE IF flap_per_hour > THRESHOLDS.flapping.high
            THEN HeuristicHit("flap_high", "high", 80)
        ELSE IF flap_per_hour > THRESHOLDS.flapping.medium
            THEN HeuristicHit("flap_medium", "medium", 60)
        ELSE Nothing

check_path_length(row) ==
    IF row.path_length = NULL THEN Nothing
    ELSE IF FracGtInt(row.path_length, THRESHOLDS.path_length.severe)
        THEN HeuristicHit("path_length_severe", "high", 85)
    ELSE IF FracGtInt(row.path_length, THRESHOLDS.path_length.mild)
        THEN HeuristicHit("path_length_mild", "medium", 60)
    ELSE Nothing

check_bogon_asn(row) ==
    IF \E r \in BOGON_ASN_RANGES : r[1] <= row.origin_as /\ row.origin_as <= r[2]
        THEN HeuristicHit("bogon_asn_critical", "critical", 95)
        ELSE Nothing

\* ipaddress.ip_network.overlaps
Overlaps(p, q) == FirstBlk(p) <= LastBlk(q) /\ FirstBlk(q) <= LastBlk(p)

check_bogon_prefix(row) ==
    IF \E b \in BOGON_PREFIXES : Overlaps(row.prefix, b)
        THEN HeuristicHit("bogon_prefix_critical", "critical", 95)
        ELSE Nothing

RECURSIVE FracSumOver(_, _)
FracSumOver(S, f) ==
    IF S = {} THEN <<0, 1>>
    ELSE LET i == CHOOSE j \in S : TRUE IN FracAdd(f[i], FracSumOver(S \ {i}, f))

\* features is the bgp_features_1min table the baseline query reads
check_path_inflation(row, features) ==
    IF row.origin_as = 0 \/ row.path_length = NULL \/ row.path_length[1] = 0 THEN Nothing
    ELSE
    LET hist == {i \in DOMAIN features :
                    /\ features[i].prefix = row.prefix
                    /\ features[i].origin_as = row.origin_as
                    /\ features[i].window_start >= row.window_start - 7 * DAY
                    /\ features[i].window_start <= row.window_start - HOUR
                    /\ features[i].path_length # NULL}
    IN  IF hist = {} THEN Nothing
        ELSE
        LET baseline_path ==
                FracDivInt(FracSumOver(hist, [i \in hist |-> features[i].path_length]),
                           Cardinality(hist))
            delta == FracSub(row.path_length, baseline_path)
        IN  IF FracGtInt(delta, THRESHOLDS.path_inflation.critical)
                THEN HeuristicHit("path_inflation_critical", "critical", 95)
            ELSE IF FracGtInt(delta, THRESHOLDS.path_inflation.high)
                THEN HeuristicHit("path_inflation_high", "high", 80)
            ELSE Nothing

\* message_rate > k, message_rate being a fraction
\* a variant whose thresholds are inclusive
check_volume_spike_inclusive(row) ==
    IF FracGe(row.message_rate, 500000, 1)
        THEN HeuristicHit("volume_spike_critical", "critical", 95)
    ELSE IF FracGe(row.message_rate, 100000, 1)
        THEN HeuristicHit("volume_spike_high", "high", 85)
    ELSE Nothing

check_volume_spike(row) ==
    IF FracGtInt(row.message_rate, THRESHOLDS.volume_spike.critical)
        THEN HeuristicHit("volume_spike_critical", "critical", 95)
    ELSE IF FracGtInt(row.message_rate, THRESHOLDS.volume_spike.high)
        THEN HeuristicHit("volume_spike_high", "high", 85)
    ELSE Nothing

\* a variant whose high threshold is exclusive
check_session_resets_above_high(row) ==
    IF row.session_resets > 50 THEN HeuristicHit("session_resets_critical", "critical", 95)
    ELSE IF row.session_resets > 11 THEN HeuristicHit("session_resets_high", "high", 85)
    ELSE IF row.session_resets >= 6 THEN HeuristicHit("session_resets_medium", "medium", 60)
    ELSE Nothing

check_session_resets(row) ==
    IF row.session_resets > THRESHOLDS.session_resets.critical
        THEN HeuristicHit("session_resets_critical", "critical", 95)
    ELSE IF row.session_resets >= THRESHOLDS.session_resets.high
        THEN HeuristicHit("session_resets_high", "high", 85)
    ELSE IF row.session_resets >= THRESHOLDS.session_resets.medium
        THEN HeuristicHit("session_resets_medium", "medium", 60)
    ELSE Nothing

\* the checks in the order apply_heuristics runs them, None results dropped
apply_heuristics(row, features) ==
    LET checks == << check_churn(row), check_withdrawal_ratio(row), check_flapping(row),
                     check_path_length(row), check_bogon_asn(row), check_bogon_prefix(row),
                     check_path_inflation(row, features), check_volume_spike(row),
                     check_session_resets(row) >>
    IN  SelectSeq(checks, LAMBDA h : h # Nothing)


(***************************************************************************)
(* The detection table hybrid_anomaly_detections.  A row's id is its       *)
(* index; visible is FALSE while the inserting transaction is open.        *)
(***************************************************************************)
SeedTs == 0

\* rows of table t with window_start > last_ts, ORDER BY window_start, prefix,
\* origin_as (rows with equal keys in id order), as a sequence of ids
KeyLess(f, i, j) ==
    \/ f[i].window_start < f[j].window_start
    \/ /\ f[i].window_start = f[j].window_start
       /\ \/ f[i].prefix.blk < f[j].prefix.blk
          \/ /\ f[i].prefix.blk = f[j].prefix.blk
             /\ \/ f[i].prefix.len < f[j].prefix.len
                \/ /\ f[i].prefix.len = f[j].prefix.len
                   /\ \/ f[i].origin_as < f[j].origin_as
                      \/ f[i].origin_as = f[j].origin_as /\ i < j

RECURSIVE SortIds(_, _)
SortIds(f, S) ==
    IF S = {} THEN <<>>
    ELSE LET m == CHOOSE i \in S : \A j \in S \ {i} : KeyLess(f, i, j)
         IN  <<m>> \o SortIds(f, S \ {m})

fetch_new_feature_rows(features, last_ts) ==
    SortIds(features, {i \in DOMAIN features : features[i].window_start > last_ts})

MaxWindow(features, ids) == Max({features[ids[k]].window_start : k \in DOMAIN ids})

\* the detection_id builders: a hash (or a formatted string) of the event
\* type and the key, one value per (window_start, prefix, origin_as)
heur_generate_detection_id(window_start, prefix, origin_as) ==
    <<"heur", "heuristic", window_start, prefix.text, origin_as>>
ml_generate_detection_id(window_start, prefix, origin_as) ==
    <<"ml", window_start, prefix.text, origin_as>>
rpki_detection_id(window_start, prefix, origin_as) ==
    <<"rpki", window_start, prefix.text, origin_as>>

Metadata(rules, desc) ==
    [triggered_rules |-> rules, rpki_description |-> desc, correlation |-> Nothing]

RowWithId(table, det_id) ==
    {i \in DOMAIN table : table[i].detection_id = det_id}

\* INSERT of a new row: the next id of the sequence (the ids a conflicting
\* INSERT draws and drops are not kept: they only leave gaps)
InsertRow(table, d, visible) ==
    Append(table, [d EXCEPT !.id = Len(table) + 1, !.visible = visible])

(***************************************************************************)
(* Heuristic detector: one poll                                            *)
(***************************************************************************)
get_max_severity(hits) ==
    LET m == Max({severity_order(hits[k].severity) : k \in DOMAIN hits})
        first == CHOOSE k \in DOMAIN hits :
                    /\ severity_order(hits[k].severity) = m
                    /\ \A j \in 1..(k - 1) : severity_order(hits[j].severity) < m
    IN  hits[first].severity

\* "x" in rule_name, for the rule names of this detector
NameHas(rule_name, family) ==
    rule_name \in
      CASE family = "churn"          -> {"churn_critical", "churn_severe", "churn_moderate"}
        [] family = "withdrawal"     -> {"withdrawal_storm_critical", "withdrawal_storm_high"}
        [] family = "flap"           -> {"flap_critical", "flap_high", "flap_medium"}
        [] family = "path_length"    -> {"path_length_severe", "path_length_mild"}
        [] family = "path_inflation" -> {"path_inflation_critical", "path_inflation_high"}
        [] family = "bogon_asn"      -> {"bogon_asn_critical"}
        [] family = "bogon_prefix"   -> {"bogon_prefix_critical"}
        [] family = "volume_spike"   -> {"volume_spike_critical", "volume_spike_high"}
        [] family = "session_resets" -> {"session_resets_critical", "session_resets_high",
                                         "session_resets_medium"}

determine_classification(hits) ==
    IF Len(hits) > 1 THEN "multi_rule"
    ELSE LET n == hits[1].rule_name
         IN  IF NameHas(n, "churn") THEN "churn_spike"
             ELSE IF NameHas(n, "withdrawal") THEN "withdrawal_burst"
             ELSE IF NameHas(n, "flap") THEN "route_flap"
             ELSE IF NameHas(n, "path_length") THEN "path_anomaly"
             ELSE IF NameHas(n, "path_inflation") THEN "path_inflation"
             ELSE IF NameHas(n, "bogon_asn") THEN "bogon_asn"
             ELSE IF NameHas(n, "bogon_prefix") THEN "bogon_prefix"
             ELSE IF NameHas(n, "volume_spike") THEN "volume_spike"
             ELSE IF NameHas(n, "session_resets") THEN "session_instability"
             ELSE "unknown"

\* the detection record process_feature_rows builds for a row with hits
HeuristicDetection(row, hits) ==
    LET severity == get_max_severity(hits)
    IN  [ id |-> 0, visible |-> TRUE,
          timestamp |-> row.window_start,
          detection_id |-> heur_generate_detection_id(row.window_start, row.prefix, row.origin_as),
          prefix |-> row.prefix,
          origin_as |-> row.origin_as,
          event_type |-> "heuristic",
          rpki_status |-> "unknown",
          combined_anomaly |-> severity \in {"medium", "high", "critical"},
          combined_score |-> Max({hits[k].score : k \in DOMAIN hits}),
          combined_severity |-> severity,
          classification |-> determine_classification(hits),
          metadata |-> Metadata([k \in DOMAIN hits |-> PyHit(hits[k])], <<>>) ]

\* a slip: a plain INSERT, the ON CONFLICT clause forgotten
insert_detection_no_conflict(table, d) == InsertRow(table, d, TRUE)

\* INSERT ... ON CONFLICT (detection_id) DO UPDATE SET combined_score,
\* combined_anomaly, combined_severity, metadata, timestamp
insert_detection(table, d) ==
    LET hit == RowWithId(table, d.detection_id)
    IN  IF hit = {} THEN InsertRow(table, d, TRUE)
        ELSE LET i == CHOOSE j \in hit : TRUE
             IN  [table EXCEPT ![i].combined_score = d.combined_score,
                               ![i].combined_anomaly = d.combined_anomaly,
                               ![i].combined_severity = d.combined_severity,
                               ![i].metadata = d.metadata,
                               ![i].timestamp = d.timestamp]

\* process_feature_rows: rows is the fetched batch (ids into features)
RECURSIVE heur_process_feature_rows(_, _, _)
heur_process_feature_rows(table, features, rows) ==
    IF rows = <<>> THEN table
    ELSE LET row == features[Head(rows)]
             hits == apply_heuristics(row, features)
             next == IF hits = <<>> THEN table
                     ELSE insert_detection(table, HeuristicDetection(row, hits))
         IN  heur_process_feature_rows(next, features, Tail(rows))

(***************************************************************************)
(* ML inference service.  Scores are in hundredths.  The trained models    *)
(* are artefacts outside the source tree; combined_score stands for the    *)
(* z-score ensemble they give a row, a fixed function of the row's         *)
(* features.                                                               *)
(***************************************************************************)
ANOMALY_THRESHOLD == 300

combined_score(row) == IF FracGtInt(row.path_length, 5) THEN 450 ELSE 110

\* a variant whose medium bucket starts at 2.0
ml_severity_medium_from_two(combined) ==
    IF combined < 200 THEN "low"
    ELSE IF combined < 400 THEN "medium"
    ELSE IF combined < 500 THEN "high"
    ELSE "critical"

ml_severity(combined) ==
    IF combined < 200 THEN "low"
    ELSE IF combined < 300 THEN "low"
    ELSE IF combined < 400 THEN "medium"
    ELSE IF combined < 500 THEN "high"
    ELSE "critical"

MLDetection(row, combined) ==
    [ id |-> 0, visible |-> TRUE,
      timestamp |-> row.window_start,
      detection_id |-> ml_generate_detection_id(row.window_start, row.prefix, row.origin_as),
      prefix |-> row.prefix,
      origin_as |-> row.origin_as,
      event_type |-> "ml_anomaly",
      rpki_status |-> "unknown",
      combined_anomaly |-> combined >= ANOMALY_THRESHOLD,
      combined_score |-> combined,
      combined_severity |-> ml_severity(combined),
      classification |-> "lstm_if_ensemble",
      metadata |-> Metadata(<<>>, <<>>) ]

\* a variant that stores only the rows scored as anomalies
ml_insert_one_anomalies_only(table, d) ==
    IF d.combined_anomaly THEN InsertRow(table, d, TRUE) ELSE table

\* ON CONFLICT (detection_id) DO UPDATE SET combined_score, combined_anomaly,
\* combined_severity, metadata
ml_insert_one(table, d) ==
    LET hit == RowWithId(table, d.detection_id)
    IN  IF hit = {} THEN InsertRow(table, d, TRUE)
        ELSE LET i == CHOOSE j \in hit : TRUE
             IN  [table EXCEPT ![i].combined_score = d.combined_score,
                               ![i].combined_anomaly = d.combined_anomaly,
                               ![i].combined_severity = d.combined_severity,
                               ![i].metadata = d.metadata]

\* rows: the fetched batch; scores: one combined score per position
RECURSIVE insert_hybrid_anomaly_detections(_, _, _, _)
insert_hybrid_anomaly_detections(table, features, rows, scores) ==
    IF rows = <<>> THEN table
    ELSE insert_hybrid_anomaly_detections(
             ml_insert_one(table, MLDetection(features[Head(rows)], Head(scores))),
             features, Tail(rows), Tail(scores))

(***************************************************************************)
(* RPKI validator service                                                  *)
(***************************************************************************)
\* the validator's answers: Nothing when the API gave none, else the
\* validated_route of the reply
ApiResponse(state, reason, matched, unmatched) ==
    [state |-> state, reason |-> reason, matched |-> matched, unmatched |-> unmatched]

Vrp(asn, max_length) == [asn |-> asn, max_length |-> max_length]

MAX_RETRIES == 3

\* what one requests.get gives: a response with a status code (and, for 200,
\* the validated_route of its body), or the exception Timeout or
\* ConnectionError
Http(status, json) == [status |-> status, json |-> json]

\* the outcome of a query: the answers to the requests it issued and what it
\* returns
Queried(answers, response) == [answers |-> answers, response |-> response]

\* a variant in which only timeouts use up the attempts and a 503 is asked
\* again
RECURSIVE attempts_503_free(_, _, _)
attempts_503_free(server, k, attempt) ==
    IF attempt >= MAX_RETRIES \/ k > Len(server) THEN Queried(SubSeq(server, 1, k - 1), Nothing)
    ELSE LET response == server[k]
         IN  IF response.status = "200" THEN Queried(SubSeq(server, 1, k), response.json)
             ELSE IF response.status = "503" THEN attempts_503_free(server, k + 1, attempt)
             ELSE IF response.status = "Timeout" THEN attempts_503_free(server, k + 1, attempt + 1)
             ELSE Queried(SubSeq(server, 1, k), Nothing)

query_routinator_api_503_free(server) == attempts_503_free(server, 1, 0)

\* the loop `for attempt in range(MAX_RETRIES)` from the given attempt on;
\* server[k] answers the k-th request
RECURSIVE attempts(_, _)
attempts(server, attempt) ==
    IF attempt >= MAX_RETRIES THEN Queried(SubSeq(server, 1, attempt), Nothing)
    ELSE LET response == server[attempt + 1]
         IN  IF response.status = "200"
                THEN Queried(SubSeq(server, 1, attempt + 1), response.json)
             ELSE IF response.status \in {"503", "Timeout"}
                THEN attempts(server, attempt + 1)
             ELSE Queried(SubSeq(server, 1, attempt + 1), Nothing)

query_routinator_api(server) == attempts(server, 0)

validate_rpki(row, api_response) ==
    IF api_response = Nothing THEN Nothing
    ELSE
    LET state == api_response.state
        reason == LowerText(api_response.reason)
        prefix_length == get_prefix_length(row.prefix)
        all == api_response.matched \o api_response.unmatched
        roa_origins == SelectSeq(all, LAMBDA v : v.asn # 0 /\ v.asn # row.origin_as)
        too_long == SelectSeq(api_response.matched,
                              LAMBDA v : v.max_length # 0 /\ prefix_length > v.max_length)
        result(st, sev, desc) == [validity_state |-> st, severity |-> sev, description |-> desc]
    IN  IF state = "valid" THEN Nothing
        ELSE IF state = "invalid" THEN
            IF (InText(<<"as">>, reason) \/ InText(<<"origin">>, reason)) /\ roa_origins # <<>>
                THEN result("invalid", "critical", DescOriginMismatch)
            ELSE IF (InText(<<"length">>, reason) \/ InText(<<"max">>, reason)) /\ too_long # <<>>
                THEN result("invalid", "high", DescMaxLength)
            ELSE result("invalid", "high", DescGenericInvalid(api_response.reason))
        ELSE IF state \in {"not-found", "unknown"} THEN result("unknown", "low", DescNoRoa)
        ELSE Nothing

get_severity_score(severity) ==
    LET s == Lower(severity)
    IN  CASE s = "critical" -> 10
          [] s = "high"     -> 7
          [] s = "medium"   -> 5
          [] s = "low"      -> 2
          [] OTHER          -> 5

RpkiDetection(row, rpki_result) ==
    [ id |-> 0, visible |-> FALSE,
      timestamp |-> row.window_start,
      detection_id |-> rpki_detection_id(row.window_start, row.prefix, row.origin_as),
      prefix |-> row.prefix,
      origin_as |-> row.origin_as,
      event_type |-> "rpki",
      rpki_status |-> rpki_result.validity_state,
      combined_anomaly |-> TRUE,
      combined_score |-> 100 * get_severity_score(rpki_result.severity),
      combined_severity |-> rpki_result.severity,
      classification |-> "UNKNOWN",
      metadata |-> Metadata(<<>>, rpki_result.description) ]

\* the INSERT ... ON CONFLICT (detection_id) DO NOTHING, before the commit
insert_rpki_detection(table, row, rpki_result) ==
    LET d == RpkiDetection(row, rpki_result)
    IN  IF RowWithId(table, d.detection_id) = {} THEN InsertRow(table, d, FALSE)
        ELSE table

Commit(table) == [i \in DOMAIN table |-> [table[i] EXCEPT !.visible = TRUE]]

(***************************************************************************)
(* Correlation engine                                                      *)
(***************************************************************************)
TIME_WINDOW == 60

\* WHERE id > last_processed_id, committed rows only
fetch_new_detections(table, last_processed_id) ==
    {i \in DOMAIN table : table[i].visible /\ table[i].id > last_processed_id}

time_window(d) == d.timestamp - (d.timestamp % TIME_WINDOW)

GroupKey(d) == <<d.prefix, d.origin_as, time_window(d)>>

\* the members, among the fetched rows df, of the group of row i
GroupOf(table, df, i) == {j \in df : GroupKey(table[j]) = GroupKey(table[i])}

Correlation(table, df, i) ==
    LET v == classify_detection_group({table[j] : j \in GroupOf(table, df, i)})
    IN  [ source_count |-> v.source_count,
          classification |-> v.classification,
          final_severity |-> v.final_severity,
          reasoning |-> v.reasoning,
          time_window |-> time_window(table[i]) ]

\* a variant whose UPDATE also rewrites combined_score with the score of the
\* final severity
correlate_detections_rescoring(table, df) ==
    [i \in DOMAIN table |->
        LET same == {j \in df : table[j].detection_id = table[i].detection_id}
        IN  IF same = {} THEN table[i]
            ELSE LET c == Correlation(table, df, Max(same))
                 IN  [table[i] EXCEPT !.classification = c.classification,
                                      !.combined_severity = c.final_severity,
                                      !.combined_score = 100 * get_severity_score(c.final_severity),
                                      !.metadata.correlation = c]]

\* correlate_detections with batch_update_detections: every fetched row gets
\* the verdict of its group (UPDATE ... WHERE detection_id = ...)
correlate_detections(table, df) ==
    [i \in DOMAIN table |->
        LET same == {j \in df : table[j].detection_id = table[i].detection_id}
        IN  IF same = {} THEN table[i]
            ELSE LET c == Correlation(table, df, Max(same))
                 IN  [table[i] EXCEPT !.classification = c.classification,
                                      !.combined_severity = c.final_severity,
                                      !.metadata.correlation = c]]

(***************************************************************************)
(* Collector: the Peer and BaseAttrs tables and handle_update               *)
(***************************************************************************)
RECONNECT_DELAY == 5

\* uuid.UUID(sha1(f"{peer}|{peer_asn}").hexdigest()[:32]): a value that is a
\* function of the formatted key alone
deterministic_peer_uuid(peer, peer_asn) == <<"sha1", peer, "|", peer_asn>>

HasRow(table, hash_id) == \E i \in DOMAIN table : table[i].hash_id = hash_id

\* INSERT into a table whose hash_id is unique: the row is stored, or the
\* statement raises psycopg.errors.UniqueViolation and stores nothing
InsertByHash(table, row) ==
    IF HasRow(table, row.hash_id) THEN [raised |-> TRUE, table |-> table]
                                  ELSE [raised |-> FALSE, table |-> Append(table, row)]

PeerRow(peer, peer_asn) ==
    [hash_id |-> deterministic_peer_uuid(peer, peer_asn), peer_addr |-> peer,
     peer_as |-> peer_asn, state |-> "up"]

\* get_peer_hash_id run without interruption: SELECT, and INSERT when the
\* SELECT found nothing; a unique violation is swallowed
get_peer_hash_id(table, peer, peer_asn) ==
    LET hash_id == deterministic_peer_uuid(peer, peer_asn)
    IN  [hash_id |-> hash_id,
         table |-> IF HasRow(table, hash_id) THEN table
                   ELSE InsertByHash(table, PeerRow(peer, peer_asn)).table]

\* the AS path as get_or_create_base_attrs stores it: [origin_as] for a
\* missing path, and origin_as appended when it is not the last element
NormalPath(as_path, origin_as) ==
    LET given == IF as_path # <<>> THEN as_path
                 ELSE IF origin_as # 0 THEN <<origin_as>> ELSE <<>>
        last == IF given = <<>> THEN 0 ELSE given[Len(given)]
    IN  IF origin_as # 0 /\ (given = <<>> \/ last # origin_as)
           THEN Append(given, origin_as) ELSE given

\* next_hop: NULL, or the comma-separated addresses as a sequence; the first
\* address is kept, and None is hashed as ''
FirstHop(next_hop) == IF next_hop = NULL THEN NULL ELSE <<next_hop[1]>>

base_attrs_uuid(as_path, origin_as, next_hop) ==
    <<"sha1", NormalPath(as_path, origin_as), "|", origin_as, "|",
      IF FirstHop(next_hop) = NULL THEN "" ELSE FirstHop(next_hop)[1]>>

BaseAttrsRow(peer_hash_id, as_path, origin_as, next_hop) ==
    [hash_id |-> base_attrs_uuid(as_path, origin_as, next_hop),
     peer_hash_id |-> peer_hash_id,
     as_path |-> NormalPath(as_path, origin_as),
     as_path_count |-> Len(NormalPath(as_path, origin_as)),
     origin_as |-> origin_as, next_hop |-> FirstHop(next_hop)]

\* get_or_create_base_attrs run without interruption
get_or_create_base_attrs(table, peer_hash_id, as_path, origin_as, next_hop) ==
    LET hash_id == base_attrs_uuid(as_path, origin_as, next_hop)
    IN  [hash_id |-> hash_id,
         table |-> IF HasRow(table, hash_id) THEN table
                   ELSE InsertByHash(table, BaseAttrsRow(peer_hash_id, as_path,
                                                         origin_as, next_hop)).table]

\* a prefix as it stands in a message: text with or without a '/', and after
\* the '/' a number or something int() rejects (len = NULL)
WirePrefix(pfx) == [slash |-> TRUE, len |-> <<pfx.len>>, prefix |-> pfx]
WireBadLength(pfx) == [slash |-> TRUE, len |-> NULL, prefix |-> pfx]
WireNoSlash(pfx) == [slash |-> FALSE, len |-> NULL, prefix |-> pfx]

\* the three tables handle_update writes, the INSERTs into ip_rib it has
\* executed, and which of them raises (0: none)
Tables(rib, peers, attrs, fail) ==
    [ip_rib |-> rib, bgp_peers |-> peers, base_attrs |-> attrs, inserts |-> 0, fail |-> fail]

\* the INSERT into ip_rib: st after the statement, or Nothing when it raised
InsertRib(st, row) ==
    IF st.inserts + 1 = st.fail THEN Nothing
    ELSE [st EXCEPT !.ip_rib = Append(@, row), !.inserts = @ + 1]

\* handle_update, the prefixes of one announcement from the k-th on.  The
\* try block encloses the whole loop: a prefix that raises (int() on its
\* length, or the INSERT) ends the announcement
RECURSIVE announce_prefixes(_, _, _, _, _, _)
announce_prefixes(st, dt, data, peer_hash_id, announcement, k) ==
    IF k > Len(announcement.prefixes) THEN st
    ELSE LET pfx == announcement.prefixes[k]
         IN  IF ~pfx.slash
                THEN announce_prefixes(st, dt, data, peer_hash_id, announcement, k + 1)
             ELSE IF pfx.len = NULL THEN st
             ELSE LET origin_as == IF data.path # <<>> THEN data.path[Len(data.path)]
                                                        ELSE data.peer_asn
                      attrs == get_or_create_base_attrs(st.base_attrs, peer_hash_id,
                                                        data.path, origin_as,
                                                        announcement.next_hop)
                      st1 == [st EXCEPT !.base_attrs = attrs.table]
                      st2 == InsertRib(st1, RibRow(dt, pfx.prefix, origin_as, FALSE, peer_hash_id,
                                                   <<Len(NormalPath(data.path, origin_as))>>))
                  IN  IF st2 = Nothing THEN [st1 EXCEPT !.inserts = @ + 1]
                      ELSE announce_prefixes(st2, dt, data, peer_hash_id, announcement, k + 1)

RECURSIVE process_announcements(_, _, _, _, _)
process_announcements(st, dt, data, peer_hash_id, a) ==
    IF a > Len(data.announcements) THEN st
    ELSE process_announcements(
             announce_prefixes(st, dt, data, peer_hash_id, data.announcements[a], 1),
             dt, data, peer_hash_id, a + 1)

\* handle_update, the withdrawals from the w-th on: each has its own try
RECURSIVE process_withdrawals(_, _, _, _, _)
process_withdrawals(st, dt, data, peer_hash_id, w) ==
    IF w > Len(data.withdrawals) THEN st
    ELSE LET pfx == data.withdrawals[w]
         IN  IF ~pfx.slash \/ pfx.len = NULL
                THEN process_withdrawals(st, dt, data, peer_hash_id, w + 1)
             ELSE LET attrs == get_or_create_base_attrs(st.base_attrs, peer_hash_id,
                                                        <<data.peer_asn>>, data.peer_asn, NULL)
                      st1 == [st EXCEPT !.base_attrs = attrs.table]
                      st2 == InsertRib(st1, RibRow(dt, pfx.prefix, data.peer_asn, TRUE,
                                                   peer_hash_id, <<1>>))
                  IN  process_withdrawals(IF st2 = Nothing THEN [st1 EXCEPT !.inserts = @ + 1]
                                                           ELSE st2,
                                          dt, data, peer_hash_id, w + 1)

\* handle_update for the data of one UPDATE message
handle_update_data(st, data) ==
    IF data.timestamp = NULL THEN st
    ELSE LET dt == data.timestamp[1]
             peer == get_peer_hash_id(st.bgp_peers, data.peer, data.peer_asn)
             st1 == [st EXCEPT !.bgp_peers = peer.table]
             st2 == process_announcements(st1, dt, data, peer.hash_id, 1)
         IN  process_withdrawals(st2, dt, data, peer.hash_id, 1)

\* the detector processes of which the shutdown is followed
Workers == {"heuristic_detector", "ml_inference_service"}
WorkerAt(pc) == [pc |-> pc, db_open |-> TRUE, exit_code |-> NULL]

\* the collector instances that resolve rows concurrently
Instances == {1, 2}
Idle == [pc |-> "idle", done |-> 0, job |-> Nothing, last |-> Nothing]

\* the collector connected to the database and about to connect its socket,
\* the detectors in their loops, no row being resolved
CollectorAtRest ==
    /\ bgp_peers = <<>>
    /\ base_attrs = <<>>
    /\ colPc = "connect"
    /\ ws = "none"
    /\ wsSent = 0
    /\ frames = 0
    /\ waited = NULL
    /\ dbOpen = TRUE
    /\ exitCode = NULL
    /\ workers = [w \in Workers |-> WorkerAt("poll")]
    /\ resolver = [i \in Instances |-> Idle]

\* the RPKI detector in its polling loop: its startup probe was answered 200
ValidatorAtRest ==
    /\ rpkiWaited = 0
    /\ rpkiProbe = <<"200">>
    /\ rpkiHttp = <<>>
    /\ rpkiExit = NULL

(***************************************************************************)
(* Specification SpecClassify: classify_detection_group applied to every   *)
(* group of at most MaxGroup rows drawn from GroupRows.                    *)
(***************************************************************************)
MaxGroup == 4

GroupRow(event_type, rpki_status, severity, rules, desc) ==
    [ event_type |-> event_type, rpki_status |-> rpki_status,
      combined_severity |-> severity, classification |-> "UNKNOWN",
      metadata |-> Metadata(rules, desc) ]

\* triggered_rules as the heuristic detector writes it (a list of objects),
\* and as a list of rule-family names
RuleLists ==
    { <<PyHit(HeuristicHit("path_inflation_high", "high", 80))>>,
      <<PyHit(HeuristicHit("churn_moderate", "medium", 60))>>,
      <<PyStr("path_inflation")>> }

RpkiKinds ==
    { <<"invalid", DescOriginMismatch>>, <<"invalid", DescMaxLength>>,
      <<"invalid", DescGenericInvalid(<<"as">>)>>, <<"unknown", DescNoRoa>>,
      <<"unknown", DescMaxLength>>, <<"unknown", DescOriginMismatch>> }

\* rows of the three event types the detectors write, and one of the type
\* "ml" the dashboard also reads
GroupRows ==
    {GroupRow("heuristic", "unknown", s, r, <<>>) : s \in {"low", "critical"}, r \in RuleLists}
    \cup {GroupRow("ml_anomaly", "unknown", s, <<>>, <<>>) : s \in Severities}
    \cup {GroupRow("rpki", k[1], s, <<>>, k[2]) : s \in {"low", "high"}, k \in RpkiKinds}
    \cup {GroupRow("ml", "unknown", "low", <<>>, <<>>)}

RECURSIVE GroupsUpTo(_)
GroupsUpTo(k) ==
    IF k <= 1 THEN {{r} : r \in GroupRows}
    ELSE {g \cup {r} : g \in GroupsUpTo(k - 1), r \in GroupRows}

Groups == GroupsUpTo(MaxGroup)

\* the pipeline at rest: empty tables, no poll in progress
PipelineAtRest ==
    /\ now = 0
    /\ ip_rib = <<>>
    /\ featUnique = FALSE
    /\ bgp_features_1min = <<>>
    /\ aggCkpt = NULL
    /\ aggLast = Nothing
    /\ heurCkpt = NULL
    /\ heurSeen = {}
    /\ mlCkpt = <<SeedTs>>
    /\ rpkiCkpt = NULL
    /\ rpkiPc = "sleep"
    /\ rpki_df = <<>>
    /\ rpkiIdx = 1
    /\ hybrid_anomaly_detections = <<>>
    /\ corrCkpt = 0
    /\ corrSeen = {}
    /\ corrPc = "running"
    /\ faults = 0
    /\ CollectorAtRest
    /\ ValidatorAtRest

InitClassify ==
    /\ PipelineAtRest
    /\ grp \in Groups
    /\ res = Nothing

Classify ==
    /\ res = Nothing
    /\ res' = classify_detection_group(grp)
    /\ UNCHANGED <<aggVars, heurCkpt, heurSeen, mlCkpt, rpkiCkpt, rpkiPc, rpki_df, rpkiIdx,
                   hybrid_anomaly_detections, corrCkpt, corrSeen, corrPc, faults, grp,
                   collectorVars, validatorVars>>

\* batch_update_detections for one group: every row of the group gets the
\* verdict (classification, combined_severity, metadata || {correlation})
batch_update_group(df, v) ==
    { [d EXCEPT !.classification = v.classification,
                !.combined_severity = v.final_severity,
                !.metadata.correlation = v] : d \in df }

\* the group's rows are overwritten with the verdict of the first run and
\* the group is handed to classify_detection_group again
BatchUpdateGroup ==
    /\ res # Nothing
    /\ \E d \in grp : d.metadata.correlation = Nothing
    /\ grp' = batch_update_group(grp, res)
    /\ res' = Nothing
    /\ UNCHANGED <<aggVars, heurCkpt, heurSeen, mlCkpt, rpkiCkpt, rpkiPc, rpki_df, rpkiIdx,
                   hybrid_anomaly_detections, corrCkpt, corrSeen, corrPc, faults,
                   collectorVars, validatorVars>>

NextClassify == Classify \/ BatchUpdateGroup

SpecClassify == InitClassify /\ [][NextClassify]_vars

\* the decision matrix: condition and outcome of rule n for the flags f
RuleCond(n, f) ==
    CASE n = 1 -> f.has_rpki_origin_mismatch
      [] n = 2 -> f.has_rpki_maxlength /\ f.has_path_inflation
      [] n = 3 -> f.has_rpki_maxlength
      [] n = 4 -> f.has_rpki_invalid /\ f.has_heuristic
      [] n = 5 -> f.has_rpki_invalid
      [] n = 6 -> f.source_count >= 4
      [] n = 7 -> f.source_count = 3
      [] n = 8 -> f.source_count = 2
      [] n = 9 -> f.source_count = 1 /\ f.max_severity_label \in {"high", "critical"}
      [] n = 10 -> TRUE

RuleOutcome(n, f) ==
    CASE n = 1 -> <<"HIJACK", "critical">>
      [] n = 2 -> <<"LEAK", "critical">>
      [] n = 3 -> <<"LEAK", "high">>
      [] n = 4 -> <<"INVALID", "high">>
      [] n = 5 -> <<"INVALID", "high">>
      [] n = 6 -> <<"SUSPICIOUS", "critical">>
      [] n = 7 -> <<"SUSPICIOUS", "high">>
      [] n = 8 -> <<"SUSPICIOUS", "medium">>
      [] n = 9 -> <<"SUSPICIOUS", f.max_severity_label>>
      [] n = 10 -> <<"NORMAL", f.max_severity_label>>

FirstRule(f) == CHOOSE n \in 1..10 : RuleCond(n, f) /\ \A m \in 1..(n - 1) : ~RuleCond(m, f)

TableOf(S) ==
    LET raw == SetToSeq(S)
        ord == SortIds(raw, DOMAIN raw)
    IN  [k \in DOMAIN raw |-> raw[ord[k]]]

AsGoogle == 15169
AsOther == 64500

\* AS-path lengths of the later of the two updates
DetectPathCounts == {3, 9}

\* two announcements of one prefix, an hour and more apart, and (late) a
\* third in the minute of the second
DetectRib(count, late) ==
    << RibRow(70, PfxGoogle, AsGoogle, FALSE, "peer1", <<3>>),
       RibRow(HOUR + 70, PfxGoogle, AsGoogle, FALSE, "peer1", <<count>>) >>
    \o IF late THEN <<RibRow(HOUR + 100, PfxGoogle, AsGoogle, FALSE, "peer2", <<count>>)>>
               ELSE <<>>

\* failed database writes (checkpoint writes, batched updates) in one run
MaxFaults == 1

ValidatorReplies(row) ==
    { Nothing,
      ApiResponse("valid", <<>>, <<Vrp(row.origin_as, 24)>>, <<>>),
      ApiResponse("invalid", <<"as">>, <<>>, <<Vrp(AsOther, 24)>>),
      ApiResponse("invalid", <<"length">>, <<Vrp(row.origin_as, 20)>>, <<>>),
      ApiResponse("not-found", <<>>, <<>>, <<>>) }

InitDetect ==
    /\ now = 2 * HOUR
    \* the aggregator ran at HOUR + 80 and later: the late update gave the
    \* minute of the second a second row
    /\ \E c \in DetectPathCounts : \E late \in BOOLEAN :
          /\ ip_rib = DetectRib(c, late)
          /\ bgp_features_1min =
                 TableOf(AggregatedRows(DetectRib(c, late), 0, HOUR + 80))
                 \o TableOf(AggregatedRows(DetectRib(c, late), HOUR + 80, 2 * HOUR))
    /\ featUnique = FALSE
    /\ aggCkpt = <<2 * HOUR>>
    /\ aggLast = Nothing
    /\ heurCkpt = <<SeedTs>>
    /\ heurSeen = {}
    /\ mlCkpt = <<SeedTs>>
    \* rpki_inference_state holds no timestamp yet: the detector starts one
    \* hour back
    /\ rpkiCkpt = NULL
    /\ rpkiPc = "sleep"
    /\ rpki_df = <<>>
    /\ rpkiIdx = 1
    /\ hybrid_anomaly_detections = <<>>
    /\ corrCkpt = 0
    /\ corrSeen = {}
    /\ corrPc = "running"
    /\ faults = 0
    /\ CollectorAtRest
    /\ ValidatorAtRest
    /\ grp = {}
    /\ res = Nothing

\* heuristic_detector.get_last_processed_timestamp: the stored timestamp, or
\* the current time when there is none
heur_get_last_processed_timestamp == IF heurCkpt = NULL THEN now ELSE heurCkpt[1]

\* one iteration of heuristic_detector.main that fetched rows; ok: did
\* update_state succeed
heuristic_poll(ok) ==
    LET df == fetch_new_feature_rows(bgp_features_1min, heur_get_last_processed_timestamp)
    IN  /\ df # <<>>
        /\ hybrid_anomaly_detections' =
               heur_process_feature_rows(hybrid_anomaly_detections, bgp_features_1min, df)
        /\ heurSeen' = heurSeen \cup Range(df)
        /\ heurCkpt' = IF ok /\ heurCkpt # NULL
                         THEN <<MaxWindow(bgp_features_1min, df)>> ELSE heurCkpt

\* one iteration of ml_inference_service.main that fetched rows
ml_poll(ok) ==
    LET df == fetch_new_feature_rows(bgp_features_1min, mlCkpt[1])
        scores == [k \in DOMAIN df |-> combined_score(bgp_features_1min[df[k]])]
    IN  /\ df # <<>>
        /\ hybrid_anomaly_detections' =
               insert_hybrid_anomaly_detections(hybrid_anomaly_detections,
                                                bgp_features_1min, df, scores)
        /\ mlCkpt' = IF ok THEN <<MaxWindow(bgp_features_1min, df)>> ELSE mlCkpt

HeuristicPoll ==
    /\ \E ok \in BOOLEAN :
          /\ ok \/ faults < MaxFaults
          /\ heuristic_poll(ok)
          /\ faults' = IF ok THEN faults ELSE faults + 1
    /\ UNCHANGED <<aggVars, mlCkpt, rpkiCkpt, rpkiPc, rpki_df, rpkiIdx,
                   corrCkpt, corrSeen, corrPc, classifyVars, collectorVars, validatorVars>>

MLPoll ==
    /\ \E ok \in BOOLEAN :
          /\ ok \/ faults < MaxFaults
          /\ ml_poll(ok)
          /\ faults' = IF ok THEN faults ELSE faults + 1
    /\ UNCHANGED <<aggVars, heurCkpt, heurSeen, rpkiCkpt, rpkiPc, rpki_df, rpkiIdx,
                   corrCkpt, corrSeen, corrPc, classifyVars, collectorVars, validatorVars>>

\* the operator deletes the row of heuristic_inference_state and starts the
\* detector again, after a first run that has processed every FeatureRow:
\* init_state_table creates the table if it is missing and inserts no row
HeuristicStateDeleted ==
    /\ heurCkpt # NULL
    /\ heurSeen = DOMAIN bgp_features_1min
    /\ fetch_new_feature_rows(bgp_features_1min, heur_get_last_processed_timestamp) = <<>>
    /\ heurCkpt' = NULL
    /\ heurSeen' = {}
    /\ UNCHANGED <<aggVars, mlCkpt, rpkiCkpt, rpkiPc, rpki_df, rpkiIdx,
                   hybrid_anomaly_detections, corrCkpt, corrSeen, corrPc, faults, classifyVars, collectorVars, validatorVars>>

\* rpki_validator_service.get_last_processed_timestamp: the stored timestamp,
\* or one hour ago when there is none
rpki_get_last_processed_timestamp == IF rpkiCkpt = NULL THEN now - HOUR ELSE rpkiCkpt[1]

\* rpki_validator_service.update_state: the UPDATE is executed without its
\* parameters, the server rejects the statement, the error is caught and the
\* transaction rolled back
rpki_update_state(ckpt, last_timestamp) == ckpt

\* main: read the checkpoint and fetch the batch
RpkiFetch ==
    /\ rpkiPc = "sleep"
    /\ LET df == fetch_new_feature_rows(bgp_features_1min, rpki_get_last_processed_timestamp)
       IN  /\ df # <<>>
           /\ rpki_df' = df
    /\ rpkiIdx' = 1
    /\ rpkiPc' = "validate"
    /\ UNCHANGED <<aggVars, heurCkpt, heurSeen, mlCkpt, rpkiCkpt,
                   hybrid_anomaly_detections, corrCkpt, corrSeen, corrPc, faults, classifyVars, collectorVars, validatorVars>>

\* process_feature_rows, one row: validate_rpki and, for a detection, the
\* INSERT of insert_rpki_detection (its transaction still open)
RpkiValidate ==
    /\ rpkiPc = "validate"
    /\ LET row == bgp_features_1min[rpki_df[rpkiIdx]]
       IN  \E reply \in ValidatorReplies(row) :
              LET rpki_result == validate_rpki(row, reply)
              IN  IF rpki_result = Nothing
                     THEN /\ rpkiIdx' = rpkiIdx + 1
                          /\ rpkiPc' = IF rpkiIdx = Len(rpki_df) THEN "update_state"
                                                                 ELSE "validate"
                          /\ UNCHANGED hybrid_anomaly_detections
                     ELSE /\ hybrid_anomaly_detections' =
                                 insert_rpki_detection(hybrid_anomaly_detections, row, rpki_result)
                          /\ rpkiPc' = "commit"
                          /\ UNCHANGED rpkiIdx
    /\ UNCHANGED <<aggVars, heurCkpt, heurSeen, mlCkpt, rpkiCkpt, rpki_df,
                   corrCkpt, corrSeen, corrPc, faults, classifyVars, collectorVars, validatorVars>>

\* insert_rpki_detection: conn.commit()
RpkiCommit ==
    /\ rpkiPc = "commit"
    /\ hybrid_anomaly_detections' = Commit(hybrid_anomaly_detections)
    /\ rpkiIdx' = rpkiIdx + 1
    /\ rpkiPc' = IF rpkiIdx = Len(rpki_df) THEN "update_state" ELSE "validate"
    /\ UNCHANGED <<aggVars, heurCkpt, heurSeen, mlCkpt, rpkiCkpt, rpki_df,
                   corrCkpt, corrSeen, corrPc, faults, classifyVars, collectorVars, validatorVars>>

\* main: update_state(conn, df['window_start'].max(), len(df)), then sleep
RpkiUpdateState ==
    /\ rpkiPc = "update_state"
    /\ rpkiCkpt' = rpki_update_state(rpkiCkpt, MaxWindow(bgp_features_1min, rpki_df))
    /\ rpkiPc' = "sleep"
    /\ UNCHANGED <<aggVars, heurCkpt, heurSeen, mlCkpt, rpki_df, rpkiIdx,
                   hybrid_anomaly_detections, corrCkpt, corrSeen, corrPc, faults, classifyVars, collectorVars, validatorVars>>

\* one iteration of correlation_engine.main that fetched rows; ok: did
\* update_state succeed
CorrelatorPoll ==
    /\ corrPc = "running"
    /\ LET df == fetch_new_detections(hybrid_anomaly_detections, corrCkpt)
       IN  /\ df # {}
           /\ hybrid_anomaly_detections' = correlate_detections(hybrid_anomaly_detections, df)
           /\ corrSeen' = corrSeen \cup df
           /\ \E ok \in BOOLEAN :
                 /\ ok \/ faults < MaxFaults
                 /\ corrCkpt' = IF ok THEN Max(df) ELSE corrCkpt
                 /\ faults' = IF ok THEN faults ELSE faults + 1
    /\ UNCHANGED <<aggVars, heurCkpt, heurSeen, mlCkpt, rpkiCkpt, rpkiPc, rpki_df, rpkiIdx,
                   corrPc, classifyVars, collectorVars, validatorVars>>

\* one iteration of correlation_engine.main whose batched UPDATE raised:
\* batch_update_detections rolls the transaction back and raises again,
\* correlate_detections lets the exception through, main logs it as fatal,
\* raises it again and closes the connection: update_state is not reached
\* and the process ends
CorrelatorBatchFails ==
    /\ corrPc = "running"
    /\ faults < MaxFaults
    /\ fetch_new_detections(hybrid_anomaly_detections, corrCkpt) # {}
    /\ corrSeen' = corrSeen \cup fetch_new_detections(hybrid_anomaly_detections, corrCkpt)
    /\ corrPc' = "exited"
    /\ faults' = faults + 1
    /\ UNCHANGED <<aggVars, heurCkpt, heurSeen, mlCkpt, rpkiCkpt, rpkiPc, rpki_df, rpkiIdx,
                   hybrid_anomaly_detections, corrCkpt, classifyVars, collectorVars, validatorVars>>

NextDetect ==
    \/ HeuristicPoll
    \/ MLPoll
    \/ RpkiFetch
    \/ RpkiValidate
    \/ RpkiCommit
    \/ RpkiUpdateState
    \/ CorrelatorPoll
    \/ CorrelatorBatchFails
    \/ HeuristicStateDeleted

SpecDetect == InitDetect /\ [][NextDetect]_vars

(***************************************************************************)
(* Properties of the detectors and the correlator (SpecDetect)             *)
(***************************************************************************)
DetectionKey(d) == <<d.event_type, d.timestamp, d.prefix, d.origin_as>>

\* C9: in every reachable state there is at most one detection row per
\* (event_type, window_start, prefix, origin_as), however many times a
\* detector scores the same FeatureRow.
C9_OneDetectionPerKey ==
    \A i, j \in DOMAIN hybrid_anomaly_detections :
        DetectionKey(hybrid_anomaly_detections[i]) = DetectionKey(hybrid_anomaly_detections[j])
            => i = j

\* the ML detector has replayed its windows (its first poll lost the
\* checkpoint write, its second did not) over a table with two FeatureRows
\* for one key, and the RPKI detector has inserted too
C9_Witness ==
    /\ faults = 1
    /\ heurSeen = {}
    /\ corrSeen = {}
    /\ mlCkpt # <<SeedTs>>
    /\ Len(bgp_features_1min) = 3
    /\ \E i \in DOMAIN hybrid_anomaly_detections :
          hybrid_anomaly_detections[i].event_type = "rpki"

\* C10: after the RPKI detector has processed a non-empty batch, its
\* checkpoint equals the greatest window_start of that batch (stated for the
\* runs in which no other checkpoint write has failed).
C10_CheckpointAtBatchMax ==
    (faults = 0 /\ rpkiPc = "sleep" /\ rpki_df # <<>>)
        => rpkiCkpt = <<MaxWindow(bgp_features_1min, rpki_df)>>

\* C3: no committed detection is left behind by the correlator's checkpoint:
\* a visible row whose id the checkpoint has reached was fetched by a poll
\* (stated for the runs in which no checkpoint write has failed).
C3_NoDetectionSkipped ==
    \A i \in DOMAIN hybrid_anomaly_detections :
        ( /\ faults = 0
          /\ hybrid_anomaly_detections[i].visible
          /\ hybrid_anomaly_detections[i].id <= corrCkpt )
            => i \in corrSeen

HasPathInflationRule(d) ==
    \E k \in DOMAIN d.metadata.triggered_rules :
        /\ d.metadata.triggered_rules[k].py = "dict"
        /\ d.metadata.triggered_rules[k].rule_name
              \in {"path_inflation_high", "path_inflation_critical"}

AnnotatedAs(d, classification, severity) ==
    /\ d.classification = classification
    /\ d.combined_severity = severity

\* C2: a correlator pass whose batch holds, for one group, a heuristic
\* detection with a path_inflation rule and an rpki detection of a MaxLength
\* violation annotates both rows LEAK / critical (stated for the runs in
\* which no checkpoint write has failed).
C2_LeakCritical ==
    [][ (CorrelatorPoll /\ faults' = 0) =>
          LET t == hybrid_anomaly_detections
              df == fetch_new_detections(t, corrCkpt)
          IN  \A h, r \in df :
                 ( /\ GroupKey(t[h]) = GroupKey(t[r])
                   /\ t[h].event_type = "heuristic" /\ HasPathInflationRule(t[h])
                   /\ t[r].event_type = "rpki"
                   /\ t[r].metadata.rpki_description = DescMaxLength )
                 => /\ AnnotatedAs(hybrid_anomaly_detections'[h], "LEAK", "critical")
                    /\ AnnotatedAs(hybrid_anomaly_detections'[r], "LEAK", "critical")
      ]_vars

\* C4: after a correlator pass, every committed detection in the group of a
\* fetched detection carries the same classification and combined_severity
\* as the fetched one (stated for the runs in which no checkpoint write has
\* failed).
C4_WholeGroupReannotated ==
    [][ (CorrelatorPoll /\ faults' = 0) =>
          LET t == hybrid_anomaly_detections
              df == fetch_new_detections(t, corrCkpt)
          IN  \A i \in df : \A j \in DOMAIN t :
                 (t[j].visible /\ GroupKey(t[j]) = GroupKey(t[i]))
                 => /\ hybrid_anomaly_detections'[j].classification
                          = hybrid_anomaly_detections'[i].classification
                    /\ hybrid_anomaly_detections'[j].combined_severity
                          = hybrid_anomaly_detections'[i].combined_severity
      ]_vars

\* C8: a heuristic or ML poll leaves the classification, combined_severity
\* and metadata of every detection the correlator has annotated as they were.
C8_ReplayIsNoOp ==
    [][ (HeuristicPoll \/ MLPoll) =>
          \A i \in DOMAIN hybrid_anomaly_detections :
             hybrid_anomaly_detections[i].metadata.correlation # Nothing
             => /\ hybrid_anomaly_detections'[i].classification
                      = hybrid_anomaly_detections[i].classification
                /\ hybrid_anomaly_detections'[i].combined_severity
                      = hybrid_anomaly_detections[i].combined_severity
                /\ hybrid_anomaly_detections'[i].metadata
                      = hybrid_anomaly_detections[i].metadata
      ]_vars

(***************************************************************************)
(* Specification SpecAgg: the collector, the aggregator and the heuristic  *)
(* detector while the clock runs.                                          *)
(***************************************************************************)
MaxClockSteps == 3
MaxUpdates == 2

\* the first instant of the run: 20 s into a minute
StartOfRun == HOUR + SLEEP_INTERVAL

InitAgg ==
    /\ now = StartOfRun
    /\ ip_rib = <<>>
    \* FALSE: the table as ensure_tables creates it; TRUE: created beforehand
    \* with UNIQUE (window_start, prefix, origin_as)
    /\ featUnique \in BOOLEAN
    /\ bgp_features_1min = <<>>
    /\ aggCkpt = NULL
    /\ aggLast = Nothing
    /\ heurCkpt = <<SeedTs>>
    /\ heurSeen = {}
    /\ mlCkpt = <<SeedTs>>
    /\ rpkiCkpt = <<SeedTs>>
    /\ rpkiPc = "sleep"
    /\ rpki_df = <<>>
    /\ rpkiIdx = 1
    /\ hybrid_anomaly_detections = <<>>
    /\ corrCkpt = 0
    /\ corrSeen = {}
    /\ corrPc = "running"
    /\ faults = 0
    /\ CollectorAtRest
    /\ ValidatorAtRest
    /\ grp = {}
    /\ res = Nothing

\* SLEEP_INTERVAL seconds pass
ClockTick ==
    /\ now < StartOfRun + MaxClockSteps * SLEEP_INTERVAL
    /\ now' = now + SLEEP_INTERVAL
    /\ UNCHANGED <<ip_rib, featUnique, bgp_features_1min, aggCkpt, aggLast,
                   detectVars, faults, classifyVars, collectorVars, validatorVars>>

\* main.handle_update: one announcement or withdrawal stored in ip_rib.  An
\* announcement carries a path of three ASes; a withdrawal is stored with the
\* peer AS as origin and a path of one
handle_update(prefix, withdrawn) ==
    ip_rib' = Append(ip_rib,
                     IF withdrawn
                        THEN RibRow(now, prefix, AsOther, TRUE, "peer1", <<1>>)
                        ELSE RibRow(now, prefix, AsGoogle, FALSE, "peer1", <<3>>))

CollectorInsert ==
    /\ Len(ip_rib) < MaxUpdates
    /\ \E prefix \in {PfxGoogle, PfxCloudflare} : \E withdrawn \in BOOLEAN :
          handle_update(prefix, withdrawn)
    /\ UNCHANGED <<now, featUnique, bgp_features_1min, aggCkpt, aggLast,
                   detectVars, faults, classifyVars, collectorVars, validatorVars>>

\* feature_aggregator.get_last_processed_timestamp: the stored timestamp, or
\* now - INITIAL_LOOKBACK minutes, which it then stores
agg_get_last_processed_timestamp ==
    IF aggCkpt = NULL THEN now - INITIAL_LOOKBACK * 60 ELSE aggCkpt[1]

TickResult(outcome, injected, from_ts, to_ts) ==
    [outcome |-> outcome, injected |-> injected, from_ts |-> from_ts, to_ts |-> to_ts]

\* the INSERT of aggregate_once meets the UNIQUE constraint
UniqueViolation(table, rows) ==
    /\ featUnique
    /\ \E i \in DOMAIN table : \E k \in DOMAIN rows : FeatureKey(table[i]) = FeatureKey(rows[k])

\* one iteration of feature_aggregator.main, at most one per SLEEP_INTERVAL;
\* fault: "none", or the statement an error is injected into
aggregator_tick(fault) ==
    LET from_ts == agg_get_last_processed_timestamp
        to_ts == now
        rows == TableOf(AggregatedRows(ip_rib, from_ts, to_ts))
    IN  /\ IF aggLast = Nothing THEN TRUE ELSE aggLast.to_ts < now
        /\ from_ts < to_ts
        /\ IF fault = "insert" \/ UniqueViolation(bgp_features_1min, rows)
              THEN /\ UNCHANGED bgp_features_1min
                   /\ aggCkpt' = <<from_ts>>
                   /\ aggLast' = TickResult("error", fault = "insert", from_ts, to_ts)
           ELSE IF fault = "checkpoint"
              THEN /\ bgp_features_1min' = bgp_features_1min \o rows
                   /\ aggCkpt' = <<from_ts>>
                   /\ aggLast' = TickResult("error", TRUE, from_ts, to_ts)
           ELSE /\ bgp_features_1min' = bgp_features_1min \o rows
                /\ aggCkpt' = <<to_ts>>
                /\ aggLast' = TickResult("ok", FALSE, from_ts, to_ts)

AggregatorTick ==
    /\ \E fault \in {"none", "insert", "checkpoint"} :
          /\ fault = "none" \/ faults < MaxFaults
          /\ aggregator_tick(fault)
          /\ faults' = IF fault = "none" THEN faults ELSE faults + 1
    /\ UNCHANGED <<now, ip_rib, featUnique, detectVars, classifyVars, collectorVars, validatorVars>>

NextAgg ==
    \/ ClockTick
    \/ CollectorInsert
    \/ AggregatorTick
    \/ HeuristicPoll

SpecAgg == InitAgg /\ [][NextAgg]_vars

\* C6: bgp_features_1min holds at most one row per (window_start, prefix,
\* origin_as) in every reachable state (stated for the runs in which no
\* tick has failed through an injected fault).
C6_OneFeatureRowPerKey ==
    faults = 0 =>
        \A i, j \in DOMAIN bgp_features_1min :
            FeatureKey(bgp_features_1min[i]) = FeatureKey(bgp_features_1min[j]) => i = j

\* C5: no FeatureRow is left behind by the heuristic detector's checkpoint:
\* a row whose window_start the checkpoint has reached was evaluated
\* (stated for the runs in which no fault has been injected).
C5_NoFeatureRowLeftBehind ==
    \A i \in DOMAIN bgp_features_1min :
        ( /\ faults = 0
          /\ heurCkpt # NULL
          /\ bgp_features_1min[i].window_start <= heurCkpt[1] )
            => i \in heurSeen

\* C7: the tick after a failed tick scans from the same from_ts, completes
\* without error (unless a new fault is injected into it) and adds no
\* FeatureRow for a key the table already holds.
C7_RerunAfterFailure ==
    [][ (AggregatorTick /\ aggLast # Nothing /\ aggLast.outcome = "error") =>
          /\ aggLast'.from_ts = aggLast.from_ts
          /\ aggLast'.outcome = "ok" \/ aggLast'.injected
          /\ \A k \in (Len(bgp_features_1min) + 1)..Len(bgp_features_1min') :
                \A i \in DOMAIN bgp_features_1min :
                   FeatureKey(bgp_features_1min'[k]) # FeatureKey(bgp_features_1min[i])
      ]_vars


(***************************************************************************)
(* Failure of the correlator's batched UPDATE (SpecDetect)                 *)
(***************************************************************************)
\* C11: an iteration of the correlator whose batched UPDATE fails modifies no
\* detection row, leaves last_processed_id as it was, and leaves the
\* correlator running, to fetch the same id range on its next poll.
C11_BatchFailureRetried ==
    [][ CorrelatorBatchFails =>
          /\ hybrid_anomaly_detections' = hybrid_anomaly_detections
          /\ corrCkpt' = corrCkpt
          /\ corrPc' = "running"
      ]_vars


(***************************************************************************)
(* Correlation applied twice to one group (SpecClassify)                   *)
(***************************************************************************)
\* C12: a second run of classify_detection_group over a group whose rows
\* carry the classification and combined_severity of the first run returns,
\* for every row, that same (classification, severity).
C12_CorrelationIdempotent ==
    (res # Nothing /\ \A d \in grp : d.metadata.correlation # Nothing)
        => \A d \in grp :
              /\ res.classification = d.classification
              /\ res.final_severity = d.combined_severity

\* the second run is done on a group of ML detections only, which the first
\* run has annotated SUSPICIOUS with the highest severity of its rows
C12_Witness ==
    /\ res # Nothing
    /\ \A d \in grp : d.metadata.correlation # Nothing
    /\ res.source_count = 1
    /\ res.classification = "SUSPICIOUS"
    /\ \E d \in grp : d.event_type = "ml_anomaly"


(***************************************************************************)
(* The origin-mismatch flag (SpecClassify)                                 *)
(***************************************************************************)
\* does the row's rpki_description, lowercased, contain 'origin as mismatch'
\* or 'hijack'
DescribesOriginMismatch(d) ==
    \/ InText(<<"origin", "as", "mismatch">>, LowerText(d.metadata.rpki_description))
    \/ InText(<<"hijack">>, LowerText(d.metadata.rpki_description))

C14_RestartReprocesses ==
    ( /\ heurCkpt = NULL
      /\ fetch_new_feature_rows(bgp_features_1min, heur_get_last_processed_timestamp) = <<>> )
    => /\ heurSeen = DOMAIN bgp_features_1min
       /\ \A i, j \in DOMAIN hybrid_anomaly_detections :
              ( /\ hybrid_anomaly_detections[i].event_type = "heuristic"
                /\ hybrid_anomaly_detections[i].detection_id
                      = hybrid_anomaly_detections[j].detection_id ) => i = j


(***************************************************************************)
(* Specification SpecCollector: the collector's supervisor and receive     *)
(* loop, the frames it is sent, and the shutdown of the workers.           *)
(***************************************************************************)
\* frames received in one run
MaxFrames == 2

\* Python values json.loads returns
PyList == [py |-> "list"]
PyNone == [py |-> "none"]
\* a JSON object with a "type", and a "data" (Nothing: the key is absent)
PyDict(type, data) == [py |-> "dict", type |-> type, data |-> data]

BlankFrame == [raw |-> "blank"]
GarbageFrame == [raw |-> "garbage"]
JsonFrame(value) == [raw |-> "json", value |-> value]

Announcement(next_hop, prefixes) == [next_hop |-> next_hop, prefixes |-> prefixes]

MessageTime == HOUR + 70

UpdateData(timestamp, path, announcements, withdrawals) ==
    [py |-> "dict", type |-> "UPDATE", timestamp |-> timestamp,
     peer |-> "192.0.2.1", peer_asn |-> AsOther, path |-> path,
     announcements |-> announcements, withdrawals |-> withdrawals]

\* UPDATE messages with a timestamp
UpdateFrames ==
    { JsonFrame(PyDict("ris_message", UpdateData(<<MessageTime>>, <<AsOther, AsGoogle>>,
          <<Announcement(<<"192.0.2.1", "192.0.2.9">>,
                         <<WireBadLength(PfxCloudflare), WirePrefix(PfxGoogle)>>)>>, <<>>))),
      JsonFrame(PyDict("ris_message", UpdateData(<<MessageTime>>, <<AsOther, AsGoogle>>,
          <<Announcement(NULL, <<WirePrefix(PfxGoogle), WirePrefix(PfxCloudflare)>>),
            Announcement(<<"192.0.2.1">>, <<WireNoSlash(PfxGoogle), WirePrefix(PfxGoogle)>>)>>,
          <<WirePrefix(PfxGoogle)>>))),
      JsonFrame(PyDict("ris_message", UpdateData(<<MessageTime>>, <<>>, <<>>,
          <<WireBadLength(PfxGoogle), WirePrefix(PfxCloudflare)>>))) }

\* the frames the claim about discarded frames speaks of: whitespace only,
\* unparseable, parseable but not a ris_message of type UPDATE, and an UPDATE
\* without a timestamp
OtherFrames ==
    { BlankFrame, GarbageFrame,
      JsonFrame(PyList),
      JsonFrame(PyDict("ris_error", Nothing)),
      JsonFrame(PyDict("ris_message", Nothing)),
      JsonFrame(PyDict("ris_message", PyNone)),
      JsonFrame(PyDict("ris_message", PyDict("KEEPALIVE", Nothing))),
      JsonFrame(PyDict("ris_message", UpdateData(NULL, <<AsGoogle>>,
          <<Announcement(NULL, <<WirePrefix(PfxGoogle)>>)>>, <<>>))) }

Frames == UpdateFrames \cup OtherFrames

\* what the body of the receive loop does with a frame: "continue" without
\* handling it, "update" (handle_update is called), or "unexpected" (an
\* AttributeError from .get on a value that is not a dict leaves both loops)
dispatch(frame) ==
    IF frame.raw = "blank" THEN "continue"
    ELSE IF frame.raw = "garbage" THEN "continue"
    ELSE IF frame.value.py # "dict" THEN "unexpected"
    ELSE IF frame.value.type # "ris_message" THEN "continue"
    ELSE IF frame.value.data = Nothing THEN "continue"
    ELSE IF frame.value.data.py # "dict" THEN "unexpected"
    ELSE IF frame.value.data.type # "UPDATE" THEN "continue"
    ELSE "update"

InitCollector ==
    /\ PipelineAtRest
    /\ grp = {}
    /\ res = Nothing

collectorIdle == <<aggCkpt, aggLast, now, featUnique, bgp_features_1min, detectVars,
                   validatorVars, classifyVars, resolver>>

\* connect_ws: ok, or create_connection raises and the except branches and
\* the finally block run with ws = None
Connect ==
    /\ colPc = "connect"
    /\ \E ok \in BOOLEAN :
          IF ok THEN /\ ws' = "open"
                     /\ wsSent' = 0
                     /\ colPc' = "subscribe"
                     /\ UNCHANGED waited
                ELSE /\ colPc' = "backoff"
                     /\ waited' = <<0>>
                     /\ UNCHANGED <<ws, wsSent>>
    /\ UNCHANGED <<ip_rib, bgp_peers, base_attrs, frames, dbOpen, exitCode, workers,
                   faults, collectorIdle>>

\* a plausible slip: the subscription is sent on the first connection only
Subscribe_first_only ==
    /\ colPc = "subscribe"
    /\ wsSent' = IF waited = NULL THEN wsSent + 1 ELSE wsSent
    /\ colPc' = "recv"
    /\ UNCHANGED <<ws, waited>>
    /\ UNCHANGED <<ip_rib, bgp_peers, base_attrs, frames, dbOpen, exitCode, workers,
                   faults, collectorIdle>>

\* subscribe: ws.send of the ris_subscribe frame, or it raises and the
\* finally block closes the socket
Subscribe ==
    /\ colPc = "subscribe"
    /\ \E ok \in BOOLEAN :
          IF ok THEN /\ wsSent' = wsSent + 1
                     /\ colPc' = "recv"
                     /\ UNCHANGED <<ws, waited>>
                ELSE /\ ws' = "closed"
                     /\ colPc' = "backoff"
                     /\ waited' = <<0>>
                     /\ UNCHANGED wsSent
    /\ UNCHANGED <<ip_rib, bgp_peers, base_attrs, frames, dbOpen, exitCode, workers,
                   faults, collectorIdle>>

\* one pass of the receive loop: ws.recv() returned frame; fail: which INSERT
\* into ip_rib raises (0: none)
Receive(frame, fail) ==
    /\ colPc = "recv"
    /\ frames < MaxFrames
    /\ frames' = frames + 1
    /\ LET st == IF dispatch(frame) = "update"
                    THEN handle_update_data(Tables(ip_rib, bgp_peers, base_attrs, fail),
                                            frame.value.data)
                    ELSE Tables(ip_rib, bgp_peers, base_attrs, fail)
       IN  /\ IF fail = 0 THEN UNCHANGED faults
                          ELSE /\ faults < MaxFaults
                               /\ st.inserts >= fail
                               /\ faults' = faults + 1
           /\ ip_rib' = st.ip_rib
           /\ bgp_peers' = st.bgp_peers
           /\ base_attrs' = st.base_attrs
    /\ IF dispatch(frame) = "unexpected"
          THEN /\ ws' = "closed"
               /\ colPc' = "backoff"
               /\ waited' = <<0>>
          ELSE UNCHANGED <<ws, colPc, waited>>
    /\ UNCHANGED <<wsSent, dbOpen, exitCode, workers, collectorIdle>>

ReceiveFrame == \E frame \in Frames : \E fail \in 0..3 : Receive(frame, fail)

\* ws.recv() raises: WebSocketConnectionClosedException (break), a timeout
\* or another WebSocketException, or any other Exception; the finally block
\* closes the socket
ConnectionLost ==
    /\ colPc = "recv"
    /\ ws' = "closed"
    /\ colPc' = "backoff"
    /\ waited' = <<0>>
    /\ UNCHANGED <<ip_rib, bgp_peers, base_attrs, wsSent, frames, dbOpen, exitCode, workers,
                   faults, collectorIdle>>

\* time.sleep(RECONNECT_DELAY), and the next iteration of the outer loop
\* starts with ws = None
Backoff ==
    /\ colPc = "backoff"
    /\ waited' = <<RECONNECT_DELAY>>
    /\ ws' = "none"
    /\ colPc' = "connect"
    /\ UNCHANGED <<ip_rib, bgp_peers, base_attrs, wsSent, frames, dbOpen, exitCode, workers,
                   faults, collectorIdle>>

\* exit status of a Python process ended by a KeyboardInterrupt nobody caught
UncaughtInterruptExits == {1, 130}

\* KeyboardInterrupt in the collector.  Inside the try block of the outer
\* loop it is caught: ws.close(), conn.close(), sys.exit(0).  During the
\* sleep before the reconnect it is outside that block and nobody catches it
CollectorInterrupt ==
    /\ colPc # "exited"
    /\ colPc' = "exited"
    /\ IF colPc \in {"connect", "subscribe", "recv"}
          THEN /\ ws' = IF ws = "open" THEN "closed" ELSE ws
               /\ dbOpen' = FALSE
               /\ exitCode' = <<0>>
          ELSE /\ \E c \in UncaughtInterruptExits : exitCode' = <<c>>
               /\ UNCHANGED <<ws, dbOpen>>
    /\ UNCHANGED <<ip_rib, bgp_peers, base_attrs, wsSent, frames, waited, workers,
                   faults, collectorIdle>>

\* a detector finishes its iteration and sleeps, or wakes up
WorkerStep ==
    /\ \E w \in Workers :
          /\ workers[w].pc # "exited"
          /\ workers' = [workers EXCEPT ![w].pc = IF @ = "poll" THEN "sleep" ELSE "poll"]
    /\ UNCHANGED <<ip_rib, bgp_peers, base_attrs, colPc, ws, wsSent, frames, waited, dbOpen,
                   exitCode, faults, collectorIdle>>

\* does the worker's main catch a KeyboardInterrupt raised at pc: the ML
\* service does inside the try block of its loop (break, conn.close()), and
\* not in the sleep after it; the heuristic detector catches Exception only
CatchesInterrupt(w, pc) == w = "ml_inference_service" /\ pc = "poll"

WorkerInterrupt ==
    /\ \E w \in Workers :
          /\ workers[w].pc # "exited"
          /\ IF CatchesInterrupt(w, workers[w].pc)
                THEN workers' = [workers EXCEPT ![w] =
                                    [pc |-> "exited", db_open |-> FALSE, exit_code |-> <<0>>]]
                ELSE \E c \in UncaughtInterruptExits :
                        workers' = [workers EXCEPT ![w] =
                                       [pc |-> "exited", db_open |-> TRUE, exit_code |-> <<c>>]]
    /\ UNCHANGED <<ip_rib, bgp_peers, base_attrs, colPc, ws, wsSent, frames, waited, dbOpen,
                   exitCode, faults, collectorIdle>>

NextSupervise ==
    \/ Connect
    \/ Subscribe
    \/ ReceiveFrame
    \/ ConnectionLost
    \/ Backoff

NextCollector ==
    \/ NextSupervise
    \/ CollectorInterrupt
    \/ WorkerStep
    \/ WorkerInterrupt

SpecCollector == InitCollector /\ [][NextCollector]_vars

\* the supervisor without shutdown, the network letting a connection attempt
\* and a send succeed again and again
SpecCollectorFair ==
    /\ InitCollector
    /\ [][NextSupervise]_vars
    /\ WF_vars(Backoff)
    /\ SF_vars(Connect /\ ws' = "open")
    /\ SF_vars(Subscribe /\ colPc' = "recv")


C16_OtherFramesDiscarded ==
    [][ \A frame \in OtherFrames :
          Receive(frame, 0) =>
             /\ ip_rib' = ip_rib
             /\ bgp_peers' = bgp_peers
             /\ base_attrs' = base_attrs
             /\ ws' = ws
             /\ colPc' = "recv"
      ]_vars


\* the prefixes of a list that have a '/' and a numeric length
WellFormed(prefixes) ==
    Cardinality({k \in DOMAIN prefixes : prefixes[k].slash /\ prefixes[k].len # NULL})

RECURSIVE WellFormedFrom(_, _)
WellFormedFrom(announcements, a) ==
    IF a > Len(announcements) THEN 0
    ELSE WellFormed(announcements[a].prefixes) + WellFormedFrom(announcements, a + 1)

\* C17: handling an UPDATE message in which one prefix fails (a non-numeric
\* length, or the one INSERT that raises) stores an Update row for every
\* other well-formed prefix of the message, and the collector goes on
\* receiving.
C17_OtherPrefixesStored ==
    [][ \A frame \in UpdateFrames : \A fail \in 0..3 :
          Receive(frame, fail) =>
             /\ Len(ip_rib') = Len(ip_rib)
                                + WellFormedFrom(frame.value.data.announcements, 1)
                                + WellFormed(frame.value.data.withdrawals)
                                - (IF fail = 0 THEN 0 ELSE 1)
             /\ colPc' = "recv"
      ]_vars


\* C19: a worker ended by a shutdown signal, whatever it was doing when the
\* signal arrived, has closed its database connection (the collector its
\* socket too) and has exit code 0.
C19_ShutdownIsClean ==
    /\ colPc = "exited" => (exitCode = <<0>> /\ ~dbOpen /\ ws # "open")
    /\ \A w \in Workers :
          workers[w].pc = "exited" => (workers[w].exit_code = <<0>> /\ ~workers[w].db_open)

(***************************************************************************)
(* Specification SpecResolve: two collector instances resolve Peer and     *)
(* BaseAttrs rows, the SELECT and the INSERT of one instance interleaved   *)
(* with those of the other.                                                *)
(***************************************************************************)
\* rows one instance resolves in one run
MaxResolves == 2

PeerJob(peer, peer_asn) == [table |-> "bgp_peers", peer |-> peer, peer_asn |-> peer_asn]
AttrsJob(as_path, origin_as, next_hop) ==
    [table |-> "base_attrs", as_path |-> as_path, origin_as |-> origin_as,
     next_hop |-> next_hop]

Jobs ==
    { PeerJob("192.0.2.1", AsOther), PeerJob("192.0.2.2", AsOther),
      AttrsJob(<<AsOther, AsGoogle>>, AsGoogle, NULL),
      AttrsJob(<<AsOther, AsGoogle>>, AsGoogle, <<"192.0.2.1", "192.0.2.9">>) }

JobHash(job) ==
    IF job.table = "bgp_peers" THEN deterministic_peer_uuid(job.peer, job.peer_asn)
    ELSE base_attrs_uuid(job.as_path, job.origin_as, job.next_hop)

JobRow(i, job) ==
    IF job.table = "bgp_peers" THEN PeerRow(job.peer, job.peer_asn)
    ELSE BaseAttrsRow(<<"instance", i>>, job.as_path, job.origin_as, job.next_hop)

\* what the function returned: the hash_id, whether its INSERT was refused
\* as a duplicate, whether an exception left the function
Returned(job, hash_id, conflict) ==
    [job |-> job, hash_id |-> hash_id, conflict |-> conflict, raised |-> FALSE]

resolveIdle == <<ip_rib, colPc, ws, wsSent, frames, waited, dbOpen, exitCode, workers, faults,
                 aggCkpt, aggLast, now, featUnique, bgp_features_1min, detectVars,
                 validatorVars, classifyVars>>

\* get_peer_hash_id / get_or_create_base_attrs up to the SELECT: the row is
\* there and the hash_id is returned, or the instance goes on to the INSERT
ResolveSelect ==
    /\ \E i \in Instances : \E job \in Jobs :
          /\ resolver[i].pc = "idle"
          /\ resolver[i].done < MaxResolves
          /\ IF HasRow(IF job.table = "bgp_peers" THEN bgp_peers ELSE base_attrs, JobHash(job))
                THEN resolver' = [resolver EXCEPT ![i] =
                         [pc |-> "idle", done |-> @.done + 1, job |-> Nothing,
                          last |-> Returned(job, JobHash(job), FALSE)]]
                ELSE resolver' = [resolver EXCEPT ![i] =
                         [pc |-> "insert", done |-> @.done, job |-> job, last |-> Nothing]]
    /\ UNCHANGED <<bgp_peers, base_attrs, resolveIdle>>

\* a plausible slip: the UniqueViolation of the INSERT is not caught
ResolveInsert_uncaught ==
    /\ \E i \in Instances :
          /\ resolver[i].pc = "insert"
          /\ LET job == resolver[i].job
                 ins == InsertByHash(IF job.table = "bgp_peers" THEN bgp_peers ELSE base_attrs,
                                     JobRow(i, job))
             IN  /\ bgp_peers' = IF job.table = "bgp_peers" THEN ins.table ELSE bgp_peers
                 /\ base_attrs' = IF job.table = "base_attrs" THEN ins.table ELSE base_attrs
                 /\ resolver' = [resolver EXCEPT ![i] =
                        [pc |-> "idle", done |-> @.done + 1, job |-> Nothing,
                         last |-> [Returned(job, JobHash(job), ins.raised)
                                      EXCEPT !.raised = ins.raised]]]
    /\ UNCHANGED resolveIdle

\* the INSERT, its UniqueViolation swallowed, and the return
ResolveInsert ==
    /\ \E i \in Instances :
          /\ resolver[i].pc = "insert"
          /\ LET job == resolver[i].job
                 ins == InsertByHash(IF job.table = "bgp_peers" THEN bgp_peers ELSE base_attrs,
                                     JobRow(i, job))
             IN  /\ bgp_peers' = IF job.table = "bgp_peers" THEN ins.table ELSE bgp_peers
                 /\ base_attrs' = IF job.table = "base_attrs" THEN ins.table ELSE base_attrs
                 /\ resolver' = [resolver EXCEPT ![i] =
                        [pc |-> "idle", done |-> @.done + 1, job |-> Nothing,
                         last |-> Returned(job, JobHash(job), ins.raised)]]
    /\ UNCHANGED resolveIdle

NextResolve == ResolveSelect \/ ResolveInsert

SpecResolve == InitCollector /\ [][NextResolve]_vars

RowsWith(table, hash_id) == {k \in DOMAIN table : table[k].hash_id = hash_id}

\* C18: however the SELECTs and INSERTs of two instances interleave, a
\* resolution returns without raising, two resolutions of the same key
\* return the same hash_id, and the table holds exactly one row with the
\* returned hash_id (Peer and BaseAttrs alike).
C18_ConcurrentResolveOneRow ==
    /\ \A i \in Instances :
          resolver[i].last # Nothing =>
             LET r == resolver[i].last
                 table == IF r.job.table = "bgp_peers" THEN bgp_peers ELSE base_attrs
             IN  /\ ~r.raised
                 /\ Cardinality(RowsWith(table, r.hash_id)) = 1
    /\ \A i, j \in Instances :
          ( /\ resolver[i].last # Nothing
            /\ resolver[j].last # Nothing
            /\ resolver[i].last.job.table = resolver[j].last.job.table
            /\ resolver[i].last.job = resolver[j].last.job )
          => resolver[i].last.hash_id = resolver[j].last.hash_id

\* both instances found no row for the same key and both executed the
\* INSERT, and the second INSERT was refused as a duplicate; by now a Peer
\* and a BaseAttrs row have been resolved and each table holds one row
C18_Witness ==
    /\ resolver[1].last # Nothing
    /\ resolver[2].last # Nothing
    /\ \E i \in Instances : resolver[i].last.conflict
    /\ resolver[1].last.job.table = resolver[2].last.job.table
    /\ resolver[1].last.job = resolver[2].last.job
    /\ Len(bgp_peers) = 1
    /\ Len(base_attrs) = 1


(***************************************************************************)
(* Specification SpecValidate: validate_rpki applied to a FeatureRow and   *)
(* every validator response of ValidateReplies.                            *)
(***************************************************************************)
ValidateRows ==
    { [prefix |-> PfxGoogle, origin_as |-> AsGoogle, window_start |-> HOUR + 60] }

ValidateReasons ==
    { <<>>, <<"as">>, <<"AS">>, <<"origin">>, <<"length">>, <<"max", "length">>,
      <<"as", "length">>, <<"other">> }

\* the validator's answers: every state with every reason, and VRPs that
\* authorize the origin or another AS, with max_length at or below the
\* prefix length
ValidateReplies ==
    { ApiResponse(state, reason, matched, unmatched) :
        state \in {"valid", "invalid", "not-found", "unknown", "error"},
        reason \in ValidateReasons,
        matched \in {<<>>, <<Vrp(AsGoogle, 24)>>, <<Vrp(AsGoogle, 20)>>},
        unmatched \in {<<>>, <<Vrp(AsOther, 24)>>} }

InitValidate ==
    /\ PipelineAtRest
    /\ grp \in [row : ValidateRows, api_response : ValidateReplies]
    /\ res = Nothing

\* process_feature_rows for one row: validate_rpki and, for a detection, the
\* row insert_rpki_detection builds
Validate ==
    /\ res = Nothing
    /\ LET rpki_result == validate_rpki(grp.row, grp.api_response)
       IN  res' = [rpki_result |-> rpki_result,
                   detection |-> IF rpki_result = Nothing THEN Nothing
                                 ELSE RpkiDetection(grp.row, rpki_result)]
    /\ UNCHANGED <<aggVars, heurCkpt, heurSeen, mlCkpt, rpkiCkpt, rpkiPc, rpki_df, rpkiIdx,
                   hybrid_anomaly_detections, corrCkpt, corrSeen, corrPc, faults, grp,
                   collectorVars, validatorVars>>

NextValidate == Validate

SpecValidate == InitValidate /\ [][NextValidate]_vars

\* the decision table: severity and kind of the detection for a response,
\* Nothing for no detection
TableSays(row, r) ==
    LET reason == LowerText(r.reason)
    IN  IF r.state = "valid" THEN Nothing
        ELSE IF r.state = "invalid" /\ (InText(<<"as">>, reason) \/ InText(<<"origin">>, reason))
            THEN [severity |-> "critical", description |-> DescOriginMismatch]
        ELSE IF /\ r.state = "invalid"
                /\ InText(<<"length">>, reason) \/ InText(<<"max">>, reason)
                /\ \E k \in DOMAIN r.matched :
                      get_prefix_length(row.prefix) > r.matched[k].max_length
            THEN [severity |-> "high", description |-> DescMaxLength]
        ELSE IF r.state = "invalid"
            THEN [severity |-> "high", description |-> DescGenericInvalid(r.reason)]
        ELSE [severity |-> "low", description |-> DescNoRoa]

ScoreSays(severity) ==
    CASE severity = "critical" -> 10
      [] severity = "high" -> 7
      [] severity = "medium" -> 5
      [] severity = "low" -> 2

\* C20: for every response with state valid, invalid, not-found or unknown,
\* validate_rpki returns what the decision table says (no detection, or the
\* table's severity and kind of detection), and the detection's
\* combined_score is 10, 7, 5 or 2 by severity.
C20_DecisionTable ==
    (res # Nothing /\ grp.api_response.state # "error") =>
        LET says == TableSays(grp.row, grp.api_response)
        IN  IF says = Nothing THEN res.rpki_result = Nothing
            ELSE /\ res.rpki_result # Nothing
                 /\ res.rpki_result.severity = says.severity
                 /\ res.rpki_result.description = says.description
                 /\ res.detection.combined_score = 100 * ScoreSays(says.severity)


(***************************************************************************)
(* Specification SpecRpki: the RPKI detector from its start: the startup   *)
(* probe, then the polling loop with the requests of every query.          *)
(***************************************************************************)
max_wait_seconds == 60

\* seconds a request takes: answered at once, or at its 5-second timeout
RequestTimes == {0, 5}

ProbeAnswers == {"200", "503", "404", "ConnectionError", "Timeout"}

\* the answers the validator can give to one request about a FeatureRow
HttpAnswers(row) ==
    { Http("200", json) : json \in ValidatorReplies(row) \ {Nothing} }
    \cup { Http(status, Nothing) : status \in {"503", "404", "Timeout", "ConnectionError"} }

InitRpki ==
    /\ now = 2 * HOUR
    /\ \E c \in DetectPathCounts : \E late \in BOOLEAN :
          /\ ip_rib = DetectRib(c, late)
          /\ bgp_features_1min =
                 TableOf(AggregatedRows(DetectRib(c, late), 0, HOUR + 80))
                 \o TableOf(AggregatedRows(DetectRib(c, late), HOUR + 80, 2 * HOUR))
    /\ featUnique = FALSE
    /\ aggCkpt = <<2 * HOUR>>
    /\ aggLast = Nothing
    /\ heurCkpt = <<SeedTs>>
    /\ heurSeen = {}
    /\ mlCkpt = <<SeedTs>>
    /\ rpkiCkpt = NULL
    /\ rpkiPc = "wait"
    /\ rpki_df = <<>>
    /\ rpkiIdx = 1
    /\ rpkiWaited = 0
    /\ rpkiProbe = NULL
    /\ rpkiHttp = <<>>
    /\ rpkiExit = NULL
    /\ hybrid_anomaly_detections = <<>>
    /\ corrCkpt = 0
    /\ corrSeen = {}
    /\ corrPc = "running"
    /\ faults = 0
    /\ CollectorAtRest
    /\ grp = {}
    /\ res = Nothing

rpkiIdle == <<aggVars, heurCkpt, heurSeen, mlCkpt, corrCkpt, corrSeen, corrPc, faults,
              classifyVars, collectorVars>>

\* wait_for_routinator, one iteration of its loop: 200 returns True (the
\* wait is over and its clock is dropped) and main goes on to its polling
\* loop, anything else sleeps 5 seconds
RpkiProbe ==
    /\ rpkiPc = "wait"
    /\ rpkiWaited < max_wait_seconds
    /\ \E answer \in ProbeAnswers : \E took \in RequestTimes :
          /\ answer = "Timeout" => took = 5
          /\ rpkiProbe' = <<answer>>
          /\ IF answer = "200"
                THEN /\ rpkiWaited' = 0
                     /\ rpkiPc' = "sleep"
                ELSE /\ rpkiWaited' = rpkiWaited + took + 5
                     /\ rpkiPc' = "wait"
    /\ UNCHANGED <<rpkiIdle, rpkiCkpt, rpki_df, rpkiIdx, rpkiHttp, rpkiExit,
                   hybrid_anomaly_detections>>

\* a variant of RpkiGiveUp that starts polling all the same
RpkiGiveUp_polls ==
    /\ rpkiPc = "wait"
    /\ rpkiWaited >= max_wait_seconds
    /\ rpkiPc' = "sleep"
    /\ UNCHANGED <<rpkiIdle, rpkiCkpt, rpki_df, rpkiIdx, rpkiWaited, rpkiProbe, rpkiHttp,
                   rpkiExit, hybrid_anomaly_detections>>

\* wait_for_routinator returns False once the window is over; main: sys.exit(1)
RpkiGiveUp ==
    /\ rpkiPc = "wait"
    /\ rpkiWaited >= max_wait_seconds
    /\ rpkiPc' = "exited"
    /\ rpkiExit' = <<1>>
    /\ UNCHANGED <<rpkiIdle, rpkiCkpt, rpki_df, rpkiIdx, rpkiWaited, rpkiProbe, rpkiHttp,
                   hybrid_anomaly_detections>>

\* process_feature_rows, one row: the requests of query_routinator_api, then
\* validate_rpki on what it returned and, for a detection, the INSERT of
\* insert_rpki_detection (its transaction still open)
RpkiQuery ==
    /\ rpkiPc = "validate"
    /\ LET row == bgp_features_1min[rpki_df[rpkiIdx]]
       IN  \E server \in [1..(MAX_RETRIES + 1) -> HttpAnswers(row)] :
              LET api == query_routinator_api(server)
                  rpki_result == validate_rpki(row, api.response)
              IN  /\ rpkiHttp' = [k \in DOMAIN api.answers |-> api.answers[k].status]
                  /\ IF rpki_result = Nothing
                        THEN /\ rpkiIdx' = rpkiIdx + 1
                             /\ rpkiPc' = IF rpkiIdx = Len(rpki_df) THEN "update_state"
                                                                    ELSE "validate"
                             /\ UNCHANGED hybrid_anomaly_detections
                        ELSE /\ hybrid_anomaly_detections' =
                                    insert_rpki_detection(hybrid_anomaly_detections, row, rpki_result)
                             /\ rpkiPc' = "commit"
                             /\ UNCHANGED rpkiIdx
    /\ UNCHANGED <<rpkiIdle, rpkiCkpt, rpki_df, rpkiWaited, rpkiProbe, rpkiExit>>

NextRpki ==
    \/ RpkiProbe
    \/ RpkiGiveUp
    \/ RpkiFetch
    \/ RpkiQuery
    \/ RpkiCommit
    \/ RpkiUpdateState

SpecRpki == InitRpki /\ [][NextRpki]_vars

\* the process is scheduled: an enabled step of the startup wait is taken
SpecRpkiFair == SpecRpki /\ WF_vars(RpkiProbe) /\ WF_vars(RpkiGiveUp)

\* C21: query_routinator_api issues at most 3 requests for one FeatureRow,
\* timeouts and 503 answers counted together; a detection is written for the
\* row only if one of the requests was answered 200.
C21_RetryBudget ==
    /\ [](Len(rpkiHttp) <= 3)
    /\ [](rpkiPc = "commit" => \E k \in DOMAIN rpkiHttp : rpkiHttp[k] = "200")
    /\ [][(rpkiPc = "validate" /\ (\A k \in DOMAIN rpkiHttp' : rpkiHttp'[k] # "200"))
             => /\ hybrid_anomaly_detections' = hybrid_anomaly_detections
                /\ rpkiIdx' = rpkiIdx + 1]_vars

\* a query gave up after a timeout, a 503 and another timeout, and the
\* detector went on without a detection
C21_Witness ==
    /\ rpkiHttp = <<"Timeout", "503", "Timeout">>
    /\ rpkiPc = "update_state"
    /\ hybrid_anomaly_detections = <<>>

\* C22: the detector is in its polling loop, has fetched rows or has written
\* a detection only after a startup probe was answered 200; once the wait
\* window is over without one, its next step is to exit with code 1, which
\* it eventually does, with nothing fetched and nothing written.
C22_StartsOnlyAfterProbe ==
    /\ []((rpkiPc \notin {"wait", "exited"} \/ rpki_df # <<>> \/ hybrid_anomaly_detections # <<>>)
             => rpkiProbe = <<"200">>)
    /\ [](rpkiPc = "exited" => /\ rpkiExit # NULL
                               /\ rpkiExit[1] # 0
                               /\ rpki_df = <<>>
                               /\ hybrid_anomaly_detections = <<>>)
    /\ [][(rpkiPc = "wait" /\ rpkiWaited >= max_wait_seconds) => rpkiPc' = "exited"]_vars
    /\ (rpkiPc = "wait" /\ rpkiWaited >= max_wait_seconds) ~> (rpkiPc = "exited")

\* the window ended at 60 seconds after twelve probes without a 200 and the
\* detector exited with code 1
C22_Witness ==
    /\ rpkiPc = "exited"
    /\ rpkiExit = <<1>>
    /\ rpkiWaited = max_wait_seconds
    /\ rpkiProbe = <<"503">>


(***************************************************************************)
(* Specification SpecPipeline: the detectors and the correlator over the   *)
(* FeatureRow of one ingested UPDATE that announces a bogon prefix from a  *)
(* private AS.                                                             *)
(***************************************************************************)
\* the Update row of an announcement of 10.0.0.0/8 whose path ends in AS 64513
BogonRib == << RibRow(HOUR + 70, PfxPrivate, 64513, FALSE, "peer1", <<2>>) >>

InitPipeline ==
    /\ now = 2 * HOUR
    /\ ip_rib = BogonRib
    \* the aggregator ran at HOUR + 80
    /\ bgp_features_1min = TableOf(AggregatedRows(BogonRib, 0, HOUR + 80))
    /\ featUnique = FALSE
    /\ aggCkpt = <<2 * HOUR>>
    /\ aggLast = Nothing
    /\ heurCkpt = <<SeedTs>>
    /\ heurSeen = {}
    /\ mlCkpt = <<SeedTs>>
    /\ rpkiCkpt = NULL
    /\ rpkiPc = "sleep"
    /\ rpki_df = <<>>
    /\ rpkiIdx = 1
    /\ hybrid_anomaly_detections = <<>>
    /\ corrCkpt = 0
    /\ corrSeen = {}
    /\ corrPc = "running"
    /\ faults = 0
    /\ CollectorAtRest
    /\ ValidatorAtRest
    /\ grp = {}
    /\ res = Nothing

SpecPipeline == InitPipeline /\ [][NextDetect]_vars

ListsRule(d, rule_name) ==
    \E k \in DOMAIN d.metadata.triggered_rules :
        /\ d.metadata.triggered_rules[k].py = "dict"
        /\ d.metadata.triggered_rules[k].rule_name = rule_name

\* the heuristic and the ML detector have processed every FeatureRow, the
\* RPKI detector has finished a pass, and the correlator has then processed
\* every detection
AllHaveRun ==
    LET t == hybrid_anomaly_detections
    IN  /\ heurSeen = DOMAIN bgp_features_1min
        /\ \A f \in DOMAIN bgp_features_1min : bgp_features_1min[f].window_start <= mlCkpt[1]
        /\ rpki_df # <<>> /\ rpkiPc = "sleep"
        /\ t # <<>>
        /\ corrPc = "running" /\ corrCkpt = Len(t) /\ corrSeen = DOMAIN t

\* C23: once the detectors and the correlator have each run over the
\* FeatureRow of the announcement of 10.0.0.0/8 from AS 64513, the heuristic
\* detection lists bogon_prefix_critical and bogon_asn_critical and is
\* annotated SUSPICIOUS with severity critical.
C23_BogonSuspiciousCritical ==
    AllHaveRun =>
        LET t == hybrid_anomaly_detections
        IN  /\ \E i \in DOMAIN t : t[i].event_type = "heuristic"
            /\ \A i \in DOMAIN t :
                  t[i].event_type = "heuristic" =>
                     /\ ListsRule(t[i], "bogon_prefix_critical")
                     /\ ListsRule(t[i], "bogon_asn_critical")
                     /\ AnnotatedAs(t[i], "SUSPICIOUS", "critical")


(***************************************************************************)
(* The ML detector on a quiet FeatureRow (SpecDetect)                      *)
(***************************************************************************)
\* no heuristic rule fires on the row and its ML score is below the threshold
Quiet(row) ==
    /\ apply_heuristics(row, bgp_features_1min) = <<>>
    /\ combined_score(row) < ANOMALY_THRESHOLD

MLRowsOf(table, row) ==
    { j \in DOMAIN table :
        table[j].detection_id =
            ml_generate_detection_id(row.window_start, row.prefix, row.origin_as) }

\* C24: an ML poll leaves, for every quiet FeatureRow of its batch, exactly
\* one ml_anomaly detection, with combined_anomaly false and severity low;
\* a correlator pass whose group for such a detection holds that detection
\* alone annotates it (NORMAL, low).
C24_QuietRowNormalLow ==
    /\ [][MLPoll =>
            LET df == fetch_new_feature_rows(bgp_features_1min, mlCkpt[1])
            IN  \A k \in DOMAIN df :
                   LET row == bgp_features_1min[df[k]]
                       t == hybrid_anomaly_detections'
                   IN  Quiet(row) =>
                          /\ Cardinality(MLRowsOf(t, row)) = 1
                          /\ \A j \in MLRowsOf(t, row) :
                                /\ t[j].event_type = "ml_anomaly"
                                /\ t[j].combined_anomaly = FALSE
                                /\ t[j].combined_severity = "low"]_vars
    /\ [][CorrelatorPoll =>
            LET t == hybrid_anomaly_detections
                df == fetch_new_detections(t, corrCkpt)
            IN  \A i \in df :
                   ( /\ GroupOf(t, df, i) = {i}
                     /\ t[i].event_type = "ml_anomaly"
                     /\ t[i].combined_anomaly = FALSE
                     /\ t[i].combined_severity = "low" )
                   => AnnotatedAs(hybrid_anomaly_detections'[i], "NORMAL", "low")]_vars

\* the ML detection of a quiet FeatureRow is the only detection of its group
\* and the correlator has annotated it (NORMAL, low)
C24_Witness ==
    \E f \in DOMAIN bgp_features_1min :
        LET row == bgp_features_1min[f]
            t == hybrid_anomaly_detections
        IN  /\ Quiet(row)
            /\ \E j \in MLRowsOf(t, row) :
                  /\ AnnotatedAs(t[j], "NORMAL", "low")
                  /\ t[j].metadata.correlation # Nothing
                  /\ t[j].metadata.correlation.source_count = 1
                  /\ \A i \in DOMAIN t : GroupKey(t[i]) = GroupKey(t[j]) => i = j


(***************************************************************************)
(* Specification SpecIngest: the collector receiving UPDATE messages, with *)
(* failing INSERTs and lost connections, and the aggregator scanning       *)
(* ip_rib.                                                                 *)
(***************************************************************************)
\* a peer announces a prefix of its own twice and withdraws it, in one message
OwnPrefixFrame ==
    JsonFrame(PyDict("ris_message", UpdateData(<<MessageTime>>, <<AsOther>>,
        <<Announcement(<<"192.0.2.1">>, <<WirePrefix(PfxGoogle), WirePrefix(PfxGoogle)>>)>>,
        <<WirePrefix(PfxGoogle)>>)))

IngestFrames == UpdateFrames \cup {OwnPrefixFrame}

InitIngest ==
    /\ now = 2 * HOUR
    /\ ip_rib = <<>>
    /\ featUnique = FALSE
    /\ bgp_features_1min = <<>>
    /\ aggCkpt = <<HOUR>>
    /\ aggLast = Nothing
    /\ heurCkpt = <<SeedTs>>
    /\ heurSeen = {}
    /\ mlCkpt = <<SeedTs>>
    /\ rpkiCkpt = NULL
    /\ rpkiPc = "sleep"
    /\ rpki_df = <<>>
    /\ rpkiIdx = 1
    /\ hybrid_anomaly_detections = <<>>
    /\ corrCkpt = 0
    /\ corrSeen = {}
    /\ corrPc = "running"
    /\ faults = 0
    /\ CollectorAtRest
    /\ ValidatorAtRest
    /\ grp = {}
    /\ res = Nothing

IngestFrame == \E frame \in IngestFrames : \E fail \in 0..3 : Receive(frame, fail)

NextIngest ==
    \/ Connect
    \/ Subscribe
    \/ IngestFrame
    \/ ConnectionLost
    \/ Backoff
    \/ AggregatorTick

SpecIngest == InitIngest /\ [][NextIngest]_vars

\* the committed Updates a FeatureRow stands for
UpdatesOf(f) ==
    { i \in DOMAIN ip_rib :
        /\ ip_rib[i].prefix = f.prefix
        /\ ip_rib[i].origin_as = f.origin_as
        /\ floor_to_1min(ip_rib[i].timestamp) = f.window_start }

\* C25: for every FeatureRow, ip_rib holds an Update with the row's prefix
\* and origin_as whose timestamp floors to the row's window_start, also when
\* an INSERT failed in the middle of a message or the connection was lost.
C25_FeatureRowHasUpdate ==
    \A k \in DOMAIN bgp_features_1min : UpdatesOf(bgp_features_1min[k]) # {}

\* the second announcement of a message failed, the connection was lost
\* afterwards, and the aggregator made a FeatureRow from the rest of the
\* message
C25_Witness ==
    /\ frames = 1
    /\ Len(ip_rib) = 2
    /\ faults = 1
    /\ waited # NULL
    /\ aggLast # Nothing
    /\ aggLast.outcome = "ok"
    /\ \E k \in DOMAIN bgp_features_1min :
          /\ bgp_features_1min[k].announcements = 1
          /\ bgp_features_1min[k].withdrawals = 1

HeurId(row) == heur_generate_detection_id(row.window_start, row.prefix, row.origin_as)

\* the k-th row of the batch is the last one of its key on which a rule fires
LastFiringOfKey(features, df, k) ==
    \A j \in DOMAIN df :
        (j > k /\ HeurId(features[df[j]]) = HeurId(features[df[k]]))
            => apply_heuristics(features[df[j]], features) = <<>>

NoneFiresOnKey(features, df, k) ==
    \A j \in DOMAIN df :
        HeurId(features[df[j]]) = HeurId(features[df[k]])
            => apply_heuristics(features[df[j]], features) = <<>>

\* C28: after a poll of the heuristic detector, every FeatureRow of the
\* batch on which a rule fires has exactly one detection, whose
\* combined_severity is the highest severity of the firing rules, whose
\* combined_score is their highest score, whose classification is
\* multi_rule exactly when two or more rules fire and whose
\* metadata.triggered_rules lists every firing rule; for a FeatureRow on
\* which no rule fires nothing is written.
C28_OneDetectionPerFiringRow ==
    [][HeuristicPoll =>
         LET features == bgp_features_1min
             df == fetch_new_feature_rows(features, heur_get_last_processed_timestamp)
             t == hybrid_anomaly_detections
             u == hybrid_anomaly_detections'
         IN  \A k \in DOMAIN df :
                LET row == features[df[k]]
                    hits == apply_heuristics(row, features)
                IN  IF hits = <<>>
                       THEN NoneFiresOnKey(features, df, k) =>
                               /\ RowWithId(u, HeurId(row)) = RowWithId(t, HeurId(row))
                               /\ \A i \in RowWithId(t, HeurId(row)) : u[i] = t[i]
                       ELSE /\ Cardinality(RowWithId(u, HeurId(row))) = 1
                            /\ LastFiringOfKey(features, df, k) =>
                                  \A i \in RowWithId(u, HeurId(row)) :
                                     /\ severity_order(u[i].combined_severity) =
                                           Max({severity_order(hits[h].severity) : h \in DOMAIN hits})
                                     /\ u[i].combined_score =
                                           Max({hits[h].score : h \in DOMAIN hits})
                                     /\ (u[i].classification = "multi_rule") <=> (Len(hits) >= 2)
                                     /\ Len(u[i].metadata.triggered_rules) = Len(hits)
                                     /\ \A h \in DOMAIN hits :
                                           ListsRule(u[i], hits[h].rule_name)]_vars


(***************************************************************************)
(* Specification SpecRules: the threshold rules check_session_resets,      *)
(* check_churn and check_withdrawal_ratio applied to FeatureRows around    *)
(* their thresholds.                                                       *)
(***************************************************************************)
RuleSessionResets == {0, 5, 6, 10, 11, 49, 50, 51}
RuleTotalUpdates == {0, 20, 21, 100, 101, 400, 401}
RuleWithdrawals == {0, 4, 5, 6, 10, 11}
RuleRatios == { <<0, 1>>, <<69, 100>>, <<7, 10>>, <<89, 100>>, <<9, 10>>, <<19, 20>>, <<2, 1>> }

InitRules ==
    /\ PipelineAtRest
    /\ grp \in [session_resets : RuleSessionResets, total_updates : RuleTotalUpdates,
                withdrawals : RuleWithdrawals, withdrawal_ratio : RuleRatios]
    /\ res = Nothing

\* apply_heuristics, the three threshold rules
ApplyRules ==
    /\ res = Nothing
    /\ res' = [ session_resets |-> check_session_resets(grp),
                churn |-> check_churn(grp),
                withdrawal_ratio |-> check_withdrawal_ratio(grp) ]
    /\ UNCHANGED <<aggVars, detectVars, faults, grp, collectorVars, validatorVars>>

NextRules == ApplyRules

SpecRules == InitRules /\ [][NextRules]_vars

\* the severity of a rule's result, "none" for no hit
SeverityOf(hit) == IF hit = Nothing THEN "none" ELSE hit.severity

\* C27 as stated: no hit for session_resets below 6, medium from 6 up to 10,
\* high from 11 up to 49, critical from 50 on.
C27_SessionResetsFrom50 ==
    res # Nothing =>
        SeverityOf(res.session_resets) =
            IF grp.session_resets < 6 THEN "none"
            ELSE IF grp.session_resets < 11 THEN "medium"
            ELSE IF grp.session_resets < 50 THEN "high"
            ELSE "critical"

\* C27 as amended: no hit for session_resets below 6, medium from 6 up to
\* 10, high from 11 up to 50, critical above 50.
C27_SessionResetsAbove50 ==
    res # Nothing =>
        SeverityOf(res.session_resets) =
            IF grp.session_resets < 6 THEN "none"
            ELSE IF grp.session_resets < 11 THEN "medium"
            ELSE IF grp.session_resets <= 50 THEN "high"
            ELSE "critical"

\* the rule was applied to a row with exactly 50 session resets
C27_Witness ==
    /\ res # Nothing
    /\ grp.session_resets = 50
    /\ SeverityOf(res.session_resets) = "high"

\* C29: check_churn gives no hit when total_updates * 60 <= 1212, medium
\* above 1212 up to 6012, high above 6012 up to 24000, critical above 24000;
\* 20 updates give no hit and 21 give medium.
C29_ChurnThresholds ==
    res # Nothing =>
        /\ SeverityOf(res.churn) =
              IF grp.total_updates * 60 <= 1212 THEN "none"
              ELSE IF grp.total_updates * 60 <= 6012 THEN "medium"
              ELSE IF grp.total_updates * 60 <= 24000 THEN "high"
              ELSE "critical"
        /\ grp.total_updates = 20 => res.churn = Nothing
        /\ grp.total_updates = 21 => SeverityOf(res.churn) = "medium"

\* the rule was applied to a row of 21 updates
C29_Witness ==
    /\ res # Nothing
    /\ grp.total_updates = 21
    /\ res.churn # Nothing

\* C30: check_withdrawal_ratio gives critical when withdrawal_ratio >= 0.90
\* and withdrawals * 60 > 300, otherwise high when withdrawal_ratio >= 0.70
\* and withdrawals * 60 > 600, otherwise no hit; ratio 0.95 gives no hit with
\* 4 withdrawals and critical with 6.
C30_StormNeedsRatioAndVolume ==
    res # Nothing =>
        LET r == grp.withdrawal_ratio
            w == grp.withdrawals
        IN  /\ SeverityOf(res.withdrawal_ratio) =
                  IF r[1] * 100 >= 90 * r[2] /\ w * 60 > 300 THEN "critical"
                  ELSE IF r[1] * 100 >= 70 * r[2] /\ w * 60 > 600 THEN "high"
                  ELSE "none"
            /\ (r = <<19, 20>> /\ w = 4) => res.withdrawal_ratio = Nothing
            /\ (r = <<19, 20>> /\ w = 6) => SeverityOf(res.withdrawal_ratio) = "critical"

\* the rule was applied to a row with ratio 0.95 and 4 withdrawals
C30_Witness ==
    /\ res # Nothing
    /\ grp.withdrawal_ratio = <<19, 20>>
    /\ grp.withdrawals = 4
    /\ res.withdrawal_ratio = Nothing


(***************************************************************************)
(* Specification SpecScores: check_volume_spike and the severity and       *)
(* anomaly flag of compute_z_score_ensemble, applied to message rates and  *)
(* combined scores around their thresholds.                                *)
(***************************************************************************)
\* message rates, as fractions
ScoreRates ==
    { <<0, 1>>, <<50000, 1>>, <<100000, 1>>, <<1000001, 10>>, <<150000, 1>>,
      <<500000, 1>>, <<5000001, 10>>, <<600000, 1>> }

\* combined scores, in hundredths
ScoreCombined == {-100, 0, 110, 199, 200, 299, 300, 301, 399, 400, 499, 500, 900}

InitScores ==
    /\ PipelineAtRest
    /\ grp \in [window_start : {HOUR + 60}, prefix : {PfxGoogle}, origin_as : {AsGoogle},
                message_rate : ScoreRates, combined : ScoreCombined]
    /\ res = Nothing

\* check_volume_spike on the row, and the ML detection the row gets for its
\* combined score
ApplyScores ==
    /\ res = Nothing
    /\ res' = [ volume_spike |-> check_volume_spike(grp),
                ml |-> MLDetection(grp, grp.combined) ]
    /\ UNCHANGED <<aggVars, detectVars, faults, grp, collectorVars, validatorVars>>

NextScores == ApplyScores

SpecScores == InitScores /\ [][NextScores]_vars

\* C31: check_volume_spike gives no hit for message_rate <= 100000, high
\* above 100000 up to 500000 and critical above 500000.
C31_VolumeSpikeThresholds ==
    res # Nothing =>
        LET r == grp.message_rate
        IN  SeverityOf(res.volume_spike) =
               IF r[1] <= 100000 * r[2] THEN "none"
               ELSE IF r[1] <= 500000 * r[2] THEN "high"
               ELSE "critical"

\* the rule was applied to a message rate of exactly 500000
C31_Witness ==
    /\ res # Nothing
    /\ grp.message_rate = <<500000, 1>>
    /\ SeverityOf(res.volume_spike) = "high"

\* C32: the severity is low for combined < 3, medium from 3 below 4, high
\* from 4 below 5 and critical from 5 on; the anomaly flag is set exactly
\* when combined >= 3.0, that is exactly when the severity is not low.
C32_SeverityBuckets ==
    res # Nothing =>
        /\ res.ml.combined_severity =
              IF grp.combined < 300 THEN "low"
              ELSE IF grp.combined < 400 THEN "medium"
              ELSE IF grp.combined < 500 THEN "high"
              ELSE "critical"
        /\ res.ml.combined_anomaly <=> (grp.combined >= 300)
        /\ res.ml.combined_anomaly <=> (res.ml.combined_severity # "low")

\* a score between 2 and 3 was bucketed low and not flagged
C32_Witness ==
    /\ res # Nothing
    /\ grp.combined = 299
    /\ res.ml.combined_severity = "low"
    /\ res.ml.combined_anomaly = FALSE


(***************************************************************************)
(* Specification SpecWorkers: the collector, the aggregator, the three     *)
(* detectors and the correlator running side by side on one database.      *)
(***************************************************************************)
WorkersFrame == \E fail \in 0..3 : Receive(OwnPrefixFrame, fail)

NextWorkers ==
    \/ Connect
    \/ Subscribe
    \/ WorkersFrame
    \/ AggregatorTick
    \/ HeuristicPoll
    \/ MLPoll
    \/ RpkiFetch
    \/ RpkiValidate
    \/ RpkiCommit
    \/ RpkiUpdateState
    \/ CorrelatorPoll
    \/ CorrelatorBatchFails

SpecWorkers == InitIngest /\ [][NextWorkers]_vars

collectorTables == <<bgp_peers, base_attrs, ip_rib>>
aggregatorTables == <<bgp_features_1min, aggCkpt>>
detectorStates == <<heurCkpt, mlCkpt, rpkiCkpt>>

\* the step leaves every detection row in place, and every row it inserted
\* or changed has the given event_type
WritesOnlyDetectionsOf(event_type) ==
    LET t == hybrid_anomaly_detections
        u == hybrid_anomaly_detections'
    IN  /\ Len(u) >= Len(t)
        /\ \A i \in DOMAIN t : u[i].detection_id = t[i].detection_id
        /\ \A i \in DOMAIN u :
              (i \notin DOMAIN t \/ u[i] # t[i]) => u[i].event_type = event_type

\* the step inserts and deletes no detection and changes at most
\* classification, combined_severity and metadata of a row
AnnotatesOnly ==
    LET t == hybrid_anomaly_detections
        u == hybrid_anomaly_detections'
    IN  /\ Len(u) = Len(t)
        /\ \A i \in DOMAIN t :
              [u[i] EXCEPT !.classification = t[i].classification,
                           !.combined_severity = t[i].combined_severity,
                           !.metadata = t[i].metadata] = t[i]

\* C33: each worker writes only its own tables and state row: the collector
\* only bgp_peers, base_attrs and ip_rib; the aggregator only inserts into
\* bgp_features_1min and writes its checkpoint; a detector only inserts or
\* upserts detections of its own event_type and writes its own checkpoint;
\* the correlator inserts and deletes no detection, changes only
\* classification, combined_severity and metadata, and writes its own
\* checkpoint.
C33_WorkersWriteOwnTables ==
    /\ [][ (Connect \/ Subscribe \/ WorkersFrame) =>
              UNCHANGED <<aggregatorTables, detectorStates, hybrid_anomaly_detections,
                          corrCkpt>> ]_vars
    /\ [][ AggregatorTick =>
              /\ UNCHANGED <<collectorTables, detectorStates, hybrid_anomaly_detections,
                             corrCkpt>>
              /\ Len(bgp_features_1min') >= Len(bgp_features_1min)
              /\ \A i \in DOMAIN bgp_features_1min :
                    bgp_features_1min'[i] = bgp_features_1min[i] ]_vars
    /\ [][ HeuristicPoll =>
              /\ UNCHANGED <<collectorTables, aggregatorTables, mlCkpt, rpkiCkpt, corrCkpt>>
              /\ WritesOnlyDetectionsOf("heuristic") ]_vars
    /\ [][ MLPoll =>
              /\ UNCHANGED <<collectorTables, aggregatorTables, heurCkpt, rpkiCkpt, corrCkpt>>
              /\ WritesOnlyDetectionsOf("ml_anomaly") ]_vars
    /\ [][ (RpkiFetch \/ RpkiValidate \/ RpkiCommit \/ RpkiUpdateState) =>
              /\ UNCHANGED <<collectorTables, aggregatorTables, heurCkpt, mlCkpt, corrCkpt>>
              /\ WritesOnlyDetectionsOf("rpki") ]_vars
    /\ [][ (CorrelatorPoll \/ CorrelatorBatchFails) =>
              /\ UNCHANGED <<collectorTables, aggregatorTables, detectorStates>>
              /\ AnnotatesOnly ]_vars

\* the collector has stored an Update, the aggregator its FeatureRow, the ML
\* and the RPKI detector a detection each, and the correlator has annotated
\* a detection and advanced its checkpoint
C33_Witness ==
    LET t == hybrid_anomaly_detections
    IN  /\ ip_rib # <<>>
        /\ bgp_features_1min # <<>>
        /\ \E i \in DOMAIN t : t[i].event_type = "ml_anomaly"
        /\ \E i \in DOMAIN t : t[i].event_type = "rpki"
        /\ \E i \in DOMAIN t : t[i].metadata.correlation # Nothing
        /\ corrCkpt > 0


\* C34: the correlator advances last_processed_id only after the
\* annotations of the fetched batch are committed: in every reachable state
\* every detection that was in a fetched batch and whose id is at most
\* last_processed_id carries the correlator's annotation, and
\* last_processed_id never decreases.
C34_AnnotatedUpToCheckpoint ==
    /\ [](\A i \in corrSeen :
             hybrid_anomaly_detections[i].id <= corrCkpt
                 => hybrid_anomaly_detections[i].metadata.correlation # Nothing)
    /\ [][corrCkpt' >= corrCkpt]_vars


(***************************************************************************)
(* Specification SpecLate: the collector and the aggregator while the      *)
(* clock runs; SpecLateFair: with a clock that keeps running and an        *)
(* aggregator that keeps ticking (main's while True loop).                 *)
(***************************************************************************)
InitLate ==
    /\ InitAgg
    /\ featUnique = FALSE

NextLate ==
    \/ ClockTick
    \/ CollectorInsert
    \/ AggregatorTick

SpecLate == InitLate /\ [][NextLate]_vars

\* the guard of aggregator_tick: a tick is due and from_ts < to_ts
AggregatorCanTick ==
    /\ IF aggLast = Nothing THEN TRUE ELSE aggLast.to_ts < now
    /\ agg_get_last_processed_timestamp < now

\* weak fairness of ClockTick and of AggregatorTick, the latter written out
\* with its guard for ENABLED
SpecLateFair ==
    /\ SpecLate
    /\ WF_vars(ClockTick)
    /\ ([]<>(~AggregatorCanTick) \/ []<><<AggregatorTick>>_vars)

\* the last instant of the bounded run
EndOfRun == StartOfRun + MaxClockSteps * SLEEP_INTERVAL

\* a FeatureRow with the key of Update i exists: without one no
\* total_updates counts the Update
HasFeatureRow(i) ==
    \E f \in DOMAIN bgp_features_1min :
        /\ bgp_features_1min[f].window_start = floor_to_1min(ip_rib[i].timestamp)
        /\ bgp_features_1min[f].prefix = ip_rib[i].prefix
        /\ bgp_features_1min[f].origin_as = ip_rib[i].origin_as

\* Update i is still ahead of the checkpoint when the bounded run ends: a
\* later tick would scan it
PendingAtEnd(i) ==
    /\ now = EndOfRun
    /\ ip_rib[i].timestamp > agg_get_last_processed_timestamp

\* C35: every Update row the collector commits is eventually counted in
\* some FeatureRow, whatever the interleaving of collector inserts and
\* aggregator ticks, also an Update whose timestamp is at or behind the
\* aggregator checkpoint when it is committed.
C35_EveryUpdateCounted ==
    \A i \in 1..MaxUpdates :
        (i \in DOMAIN ip_rib) ~>
            (i \in DOMAIN ip_rib /\ (HasFeatureRow(i) \/ PendingAtEnd(i)))


\* the Updates of FeatureRow f's key, and the Updates the FeatureRows of
\* that key count between them
UpdatesCountedFor(f) ==
    SumOver({g \in DOMAIN bgp_features_1min :
                FeatureKey(bgp_features_1min[g]) = FeatureKey(bgp_features_1min[f])},
            [g \in DOMAIN bgp_features_1min |-> bgp_features_1min[g].total_updates])

\* C36: the aggregator checkpoint never decreases; a successful tick scans
\* (from_ts, to_ts] with from_ts the checkpoint the tick before it left and
\* moves the checkpoint to to_ts, so the scans of consecutive successful
\* ticks are contiguous and do not overlap; and while no write has failed no
\* Update is counted in more than one FeatureRow: the FeatureRows of a key
\* count between them no more Updates than ip_rib holds for the key.
C36_ContiguousScans ==
    /\ [][aggCkpt # NULL => (aggCkpt' # NULL /\ aggCkpt'[1] >= aggCkpt[1])]_vars
    /\ [][(AggregatorTick /\ aggLast'.outcome = "ok") =>
              /\ aggLast'.from_ts = agg_get_last_processed_timestamp
              /\ aggLast'.from_ts < aggLast'.to_ts
              /\ aggCkpt' = <<aggLast'.to_ts>>]_vars
    /\ [](faults = 0 =>
             \A f \in DOMAIN bgp_features_1min :
                 UpdatesCountedFor(f) <= Cardinality(UpdatesOf(bgp_features_1min[f])))

\* two successful ticks have each counted an Update of one key, the second
\* starting where the first ended
C36_Witness ==
    /\ faults = 0
    /\ aggLast # Nothing
    /\ aggLast.outcome = "ok"
    /\ aggLast.from_ts > StartOfRun - INITIAL_LOOKBACK * 60
    /\ \E f, g \in DOMAIN bgp_features_1min :
          /\ f # g
          /\ FeatureKey(bgp_features_1min[f]) = FeatureKey(bgp_features_1min[g])
          /\ UpdatesCountedFor(f) = 2


\* C37: the severity the correlator writes to the rows of a group is never
\* lower than the highest combined_severity among the members of the group.
C37_SeverityNeverLowered ==
    res # Nothing =>
        \A d \in grp :
            severity_order(res.final_severity) >= severity_order(d.combined_severity)


(***************************************************************************)
(* Specification SpecAttrs: the collector receiving UPDATE messages with   *)
(* and without a top-level path, from peers with and without an AS number. *)
(***************************************************************************)
\* one announcement and one withdrawal per message
AttrsFrames ==
    { JsonFrame(PyDict("ris_message",
          [UpdateData(<<MessageTime>>, path,
                      <<Announcement(<<"192.0.2.1">>, <<WirePrefix(PfxGoogle)>>)>>,
                      <<WirePrefix(PfxCloudflare)>>)
              EXCEPT !.peer_asn = peer_asn])) :
        path \in {<<>>, <<AsGoogle>>, <<AsOther, AsGoogle>>}, peer_asn \in {0, AsOther} }

AttrsFrame == \E frame \in AttrsFrames : \E fail \in 0..2 : Receive(frame, fail)

NextAttrs ==
    \/ Connect
    \/ Subscribe
    \/ AttrsFrame

SpecAttrs == InitIngest /\ [][NextAttrs]_vars

\* C38: every BaseAttrs row the collector inserts stores an as_path whose
\* last element is its origin_as and an as_path_count equal to the length
\* of that path, for announcements with any top-level path (an empty one
\* too, with any peer_asn, 0 included) and for withdrawals.
C38_PathEndsInOrigin ==
    \A k \in DOMAIN base_attrs :
        /\ base_attrs[k].as_path # <<>>
        /\ base_attrs[k].as_path[Len(base_attrs[k].as_path)] = base_attrs[k].origin_as
        /\ base_attrs[k].as_path_count = Len(base_attrs[k].as_path)


SessionResetsRules ==
    {"session_resets_medium", "session_resets_high", "session_resets_critical"}

\* C39: every FeatureRow has session_resets = 0, and no heuristic detection
\* lists a session_resets rule among its triggered rules.
C39_NoSessionResets ==
    /\ \A f \in DOMAIN bgp_features_1min : bgp_features_1min[f].session_resets = 0
    /\ \A i \in DOMAIN hybrid_anomaly_detections :
          hybrid_anomaly_detections[i].event_type = "heuristic" =>
             \A name \in SessionResetsRules : ~ListsRule(hybrid_anomaly_detections[i], name)

\* the heuristic detector has applied its rules to every FeatureRow and has
\* written a detection
C39_Witness ==
    /\ bgp_features_1min # <<>>
    /\ heurSeen = DOMAIN bgp_features_1min
    /\ \E i \in DOMAIN hybrid_anomaly_detections :
          /\ hybrid_anomaly_detections[i].event_type = "heuristic"
          /\ hybrid_anomaly_detections[i].metadata.triggered_rules # <<>>


(***************************************************************************)
(* Specification SpecRefs: two collector instances run handle_update for   *)
(* one prefix each, statement by statement, on one database; a statement   *)
(* may raise.                                                              *)
(***************************************************************************)
\* one announcement or one withdrawal of a prefix, as handle_update sees it
RefUpdate(iswithdrawn, next_hop) ==
    [dt |-> MessageTime, peer |-> "192.0.2.1", peer_asn |-> AsOther,
     path |-> <<AsOther, AsGoogle>>, next_hop |-> next_hop, prefix |-> PfxGoogle,
     iswithdrawn |-> iswithdrawn]

RefUpdates == { RefUpdate(w, h) : w \in BOOLEAN, h \in {NULL, <<"192.0.2.1">>} }

\* the arguments handle_update passes to get_or_create_base_attrs
RefAttrs(u) ==
    IF u.iswithdrawn THEN AttrsJob(<<u.peer_asn>>, u.peer_asn, NULL)
    ELSE AttrsJob(u.path, u.path[Len(u.path)], u.next_hop)

\* the row handle_update inserts into ip_rib
UpdateRow(u, peer_hash_id, base_attr_hash_id) ==
    [timestamp |-> u.dt, prefix |-> u.prefix, origin_as |-> RefAttrs(u).origin_as,
     iswithdrawn |-> u.iswithdrawn, peer_hash_id |-> peer_hash_id,
     base_attr_hash_id |-> base_attr_hash_id]

refsIdle == <<colPc, ws, wsSent, frames, waited, dbOpen, exitCode, workers,
              aggCkpt, aggLast, now, featUnique, bgp_features_1min, detectVars,
              validatorVars, classifyVars>>

\* instance i at statement pc of update u
RefsAt(i, pc, u) == [resolver EXCEPT ![i] = [@ EXCEPT !.pc = pc, !.job = u]]

\* the exception leaves handle_update (or the try block of the prefix): no
\* Update row is inserted for u
RefsAbandon(i) ==
    [resolver EXCEPT ![i] = [pc |-> "idle", done |-> @.done + 1, job |-> Nothing,
                             last |-> Nothing]]

\* handle_update is called for an update
RefsBegin ==
    /\ \E i \in Instances : \E u \in RefUpdates :
          /\ resolver[i].pc = "idle"
          /\ resolver[i].done < MaxResolves
          /\ resolver' = RefsAt(i, "peer_select", u)
    /\ UNCHANGED <<ip_rib, bgp_peers, base_attrs, faults, refsIdle>>

\* get_peer_hash_id: the SELECT
RefsPeerSelect ==
    /\ \E i \in Instances : \E ok \in BOOLEAN :
          /\ resolver[i].pc = "peer_select"
          /\ ok \/ faults < MaxFaults
          /\ faults' = IF ok THEN faults ELSE faults + 1
          /\ LET u == resolver[i].job
             IN  resolver' =
                    IF ~ok THEN RefsAbandon(i)
                    ELSE IF HasRow(bgp_peers, deterministic_peer_uuid(u.peer, u.peer_asn))
                       THEN RefsAt(i, "attrs_select", u)
                    ELSE RefsAt(i, "peer_insert", u)
    /\ UNCHANGED <<ip_rib, bgp_peers, base_attrs, refsIdle>>

\* a variant that swallows every error of the INSERT
RefsPeerInsert_any_error ==
    /\ \E i \in Instances : \E ok \in BOOLEAN :
          /\ resolver[i].pc = "peer_insert"
          /\ ok \/ faults < MaxFaults
          /\ faults' = IF ok THEN faults ELSE faults + 1
          /\ LET u == resolver[i].job
             IN  /\ bgp_peers' = IF ok THEN InsertByHash(bgp_peers,
                                                         PeerRow(u.peer, u.peer_asn)).table
                                       ELSE bgp_peers
                 /\ resolver' = RefsAt(i, "attrs_select", u)
    /\ UNCHANGED <<ip_rib, base_attrs, refsIdle>>

\* get_peer_hash_id: the INSERT; a UniqueViolation is swallowed, any other
\* error leaves handle_update
RefsPeerInsert ==
    /\ \E i \in Instances : \E ok \in BOOLEAN :
          /\ resolver[i].pc = "peer_insert"
          /\ ok \/ faults < MaxFaults
          /\ faults' = IF ok THEN faults ELSE faults + 1
          /\ LET u == resolver[i].job
             IN  /\ bgp_peers' = IF ok THEN InsertByHash(bgp_peers,
                                                         PeerRow(u.peer, u.peer_asn)).table
                                       ELSE bgp_peers
                 /\ resolver' = IF ok THEN RefsAt(i, "attrs_select", u) ELSE RefsAbandon(i)
    /\ UNCHANGED <<ip_rib, base_attrs, refsIdle>>

\* get_or_create_base_attrs: the SELECT
RefsAttrsSelect ==
    /\ \E i \in Instances : \E ok \in BOOLEAN :
          /\ resolver[i].pc = "attrs_select"
          /\ ok \/ faults < MaxFaults
          /\ faults' = IF ok THEN faults ELSE faults + 1
          /\ LET u == resolver[i].job
             IN  resolver' =
                    IF ~ok THEN RefsAbandon(i)
                    ELSE IF HasRow(base_attrs, JobHash(RefAttrs(u)))
                       THEN RefsAt(i, "rib_insert", u)
                    ELSE RefsAt(i, "attrs_insert", u)
    /\ UNCHANGED <<ip_rib, bgp_peers, base_attrs, refsIdle>>

\* get_or_create_base_attrs: the INSERT; a UniqueViolation is swallowed, any
\* other error ends the try block of the prefix
RefsAttrsInsert ==
    /\ \E i \in Instances : \E ok \in BOOLEAN :
          /\ resolver[i].pc = "attrs_insert"
          /\ ok \/ faults < MaxFaults
          /\ faults' = IF ok THEN faults ELSE faults + 1
          /\ LET u == resolver[i].job
                 a == RefAttrs(u)
                 row == BaseAttrsRow(deterministic_peer_uuid(u.peer, u.peer_asn),
                                     a.as_path, a.origin_as, a.next_hop)
             IN  /\ base_attrs' = IF ok THEN InsertByHash(base_attrs, row).table
                                        ELSE base_attrs
                 /\ resolver' = IF ok THEN RefsAt(i, "rib_insert", u) ELSE RefsAbandon(i)
    /\ UNCHANGED <<ip_rib, bgp_peers, refsIdle>>

\* handle_update: the INSERT into ip_rib with the two hash_ids returned
RefsRibInsert ==
    /\ \E i \in Instances : \E ok \in BOOLEAN :
          /\ resolver[i].pc = "rib_insert"
          /\ ok \/ faults < MaxFaults
          /\ faults' = IF ok THEN faults ELSE faults + 1
          /\ LET u == resolver[i].job
                 row == UpdateRow(u, deterministic_peer_uuid(u.peer, u.peer_asn),
                                  JobHash(RefAttrs(u)))
             IN  /\ ip_rib' = IF ok THEN Append(ip_rib, row) ELSE ip_rib
                 /\ resolver' =
                       IF ok THEN [resolver EXCEPT ![i] =
                                      [pc |-> "idle", done |-> @.done + 1, job |-> Nothing,
                                       last |-> row]]
                       ELSE RefsAbandon(i)
    /\ UNCHANGED <<bgp_peers, base_attrs, refsIdle>>

NextRefs ==
    \/ RefsBegin
    \/ RefsPeerSelect
    \/ RefsPeerInsert
    \/ RefsAttrsSelect
    \/ RefsAttrsInsert
    \/ RefsRibInsert

SpecRefs == InitCollector /\ [][NextRefs]_vars

\* C40: every Update row references a Peer row and a BaseAttrs row that
\* exist: when an Update row is inserted, and in every state after it,
\* bgp_peers holds its peer_hash_id and base_attrs its base_attr_hash_id,
\* however the statements of the collector instances interleave and
\* whichever statement fails.
C40_UpdateReferencesExist ==
    /\ [][\A k \in DOMAIN ip_rib' :
             k \notin DOMAIN ip_rib =>
                /\ HasRow(bgp_peers, ip_rib'[k].peer_hash_id)
                /\ HasRow(base_attrs, ip_rib'[k].base_attr_hash_id)]_vars
    /\ [](\A k \in DOMAIN ip_rib :
             /\ HasRow(bgp_peers, ip_rib[k].peer_hash_id)
             /\ HasRow(base_attrs, ip_rib[k].base_attr_hash_id))

\* both instances have inserted an Update row, one Peer row serves them
\* both, and a statement has failed
C40_Witness ==
    /\ resolver[1].last # Nothing
    /\ resolver[2].last # Nothing
    /\ Len(ip_rib) >= 2
    /\ Len(bgp_peers) = 1
    /\ faults = 1

=============================================================================
